---- MODULE Spec2Model ----
(***************************************************************************)
(* Live (cron) mode of the ambient-weather dual-cluster indexer: main.js.  *)
(* Two machines (runs) may execute main() against the same two clusters.   *)
(* Backfill mode: runBackfill() of src/backfill/backfill.js locates a gap   *)
(* per cluster, asks for confirmation, sources the data and indexes it.     *)
(* Archive script: scripts/archive-data.js moves old data files away once    *)
(* both clusters are known to hold newer data.                              *)
(***************************************************************************)
EXTENDS Integers, Sequences, FiniteSets, TLC

\* ---------------------------------------------------------------- bounds
MaxTs == 2
MaxFiles == 1
MaxFaults == 2
MaxDay == 3

\* ------------------------------------------------------------- constants
null == -1
Timestamps == 0..MaxTs
Clusters == {"PRODUCTION", "STAGING"}
DataTypes == {"imperial", "metric"}
Runs == {"pi", "mac"}
FileNames == 1..MaxFiles
MinuteMs == 60000
DayMs == 86400000
GapThresholdMinutes == 10

VARIABLES
  esDocs,                  \* [cluster][dataType] -> set of dateutc stored
  localFiles,              \* file name -> sequence of dateutc (JSONL records)
  schedule,                \* how the cron jobs are deployed: single | sequential | concurrent
  faultsLeft,              \* remaining environment failures
  pc,                      \* [run] -> position of main()
  initResult,              \* [run][cluster] -> settled result of initialize(), or pending
  clusterLatestDate,       \* [run][cluster] -> prodLatestDate / stagingLatestDate
  fetchFromDate,           \* [run]
  imperialJSONLFileNames,  \* [run] -> sequence of file names
  metricJSONLFileNames,    \* [run]
  getNewDataPromiseResult, \* [run] -> what getDataForDateRanges settled with
  ipc,                     \* [run][cluster] -> position of indexToCluster
  results,                 \* [run][cluster] -> status of indexToCluster
  bulkCalls,               \* [run][cluster][dataType] -> sequence of bulkIndexDocuments calls
  bulkWritten,             \* [run][cluster][dataType] -> set of dateutc accepted
  returned,                \* [run] -> value main() resolved / rejected with
  cliArgs,                 \* backfill: the parsed command line
  bpc,                     \* backfill: position of runBackfill
  clusters,                \* backfill: validation.clusters (cluster names)
  clusterIndex,            \* backfill: loop index i + 1 of runBackfill
  fromDate,                \* backfill: validation.fromDate (epoch ms)
  toDate,                  \* backfill: validation.toDate (epoch ms)
  boundaries,              \* backfill: [cluster] -> result of findDataGapBoundaries
  calls,                   \* backfill: [cluster] -> operations invoked for the cluster
  answer,                  \* backfill: [cluster] -> what the operator typed
  dataSource,              \* backfill: 'unknown' | 'local' | 'api' of the running flow
  dataRecords,             \* backfill: dataRecords of the running flow
  filesForIndexing,        \* backfill: file base names handed to the indexer
  tempJsonl,               \* backfill: content of the temporary JSONL files
  backfillBulkCalls,       \* backfill: [cluster][dataType] -> bulkIndexDocuments calls
  clusterResults,          \* backfill: [cluster] -> result of backfillSingleCluster
  runResult,               \* backfill: what runBackfill returned
  exitCode,                \* backfill: exit status of the node process, once it ended
  earlierResults,          \* backfill: what the earlier invocations found, sent and returned
  stationReadings,         \* dateutc of every reading the weather station produced
  apc,                     \* archive: position of main() of archive-data.js
  archiveArgs,             \* archive: --dry-run and the state of ARCHIVE_PATH
  cutoffDate,              \* archive: Date.now() - retentionDays * MS_PER_DAY
  latestIndexed,           \* archive: [cluster] -> what getLatestIndexedDate returned
  dataFileSets,            \* archive: the file sets in the data directories, by name
  filesToArchive,          \* archive: the eligible file sets not yet handled
  archivedFileSets         \* archive: the file sets moved to ARCHIVE_PATH

mainVars == <<schedule, pc, initResult, clusterLatestDate, fetchFromDate,
              imperialJSONLFileNames, metricJSONLFileNames, getNewDataPromiseResult,
              ipc, results, bulkCalls, bulkWritten, returned>>

backfillVars == <<cliArgs, bpc, clusters, clusterIndex, fromDate, toDate, boundaries,
                  calls, answer, dataSource, dataRecords, filesForIndexing, tempJsonl,
                  backfillBulkCalls, clusterResults, runResult, exitCode,
                  earlierResults, stationReadings>>

archiveVars == <<apc, archiveArgs, cutoffDate, latestIndexed, dataFileSets,
                 filesToArchive, archivedFileSets>>

vars == <<esDocs, localFiles, schedule, faultsLeft, pc, initResult,
          clusterLatestDate, fetchFromDate, imperialJSONLFileNames,
          metricJSONLFileNames, getNewDataPromiseResult, ipc, results, bulkCalls,
          bulkWritten, returned, cliArgs, bpc, clusters, clusterIndex, fromDate,
          toDate, boundaries, calls, answer, dataSource, dataRecords,
          filesForIndexing, tempJsonl, backfillBulkCalls, clusterResults, runResult,
          exitCode, earlierResults, stationReadings, apc, archiveArgs, cutoffDate,
          latestIndexed, dataFileSets, filesToArchive, archivedFileSets>>

\* ---------------------------------------------------------------- helpers
RECURSIVE SetMax(_)
SetMax(S) ==
  IF S = {} THEN null
  ELSE LET x == CHOOSE y \in S : TRUE
           m == SetMax(S \ {x})
       IN IF x > m THEN x ELSE m

Range(s) == { s[i] : i \in 1..Len(s) }

RECURSIVE SortedSeq(_)
SortedSeq(S) ==
  IF S = {} THEN <<>>
  ELSE LET m == CHOOSE x \in S : \A y \in S : x <= y
       IN <<m>> \o SortedSeq(S \ {m})

\* Math.min of two numbers
MathMin(a, b) == IF a <= b THEN a ELSE b

\* JavaScript truthiness of a number-or-undefined (0 and undefined are falsy)
Truthy(v) == v # null /\ v # 0

\* the newest k files of an archive of n files, for every k, as sequences of names
NewestFiles(n) == { [i \in 1..k |-> n - k + i] : k \in 0..n }

\* ----------------------------------------------- main_utils.js (filtering)
IndexAlias(dataType) ==
  IF dataType = "imperial" THEN "all-ambient-weather-heiligers-imperial"
  ELSE "all-ambient-weather-heiligers-metric"

\* one JSONL file of the given representation; conversion keeps dateutc
ReadJsonlFile(fileName, dataType) == localFiles[fileName]

\* records kept by the filterAfterDate option: strictly newer, or all if null
FilterRecords(records, filterAfterDate) ==
  SelectSeq(records, LAMBDA d : filterAfterDate = null \/ d > filterAfterDate)

\* one action line followed by one document line per kept record
RECURSIVE BulkLines(_, _)
BulkLines(records, dataType) ==
  IF records = <<>> THEN <<>>
  ELSE << [kind |-> "action", index |-> IndexAlias(dataType), dateutc |-> null],
          [kind |-> "doc", index |-> "", dateutc |-> Head(records)] >>
       \o BulkLines(Tail(records), dataType)

RECURSIVE prepareDataForBulkIndexing(_, _, _)
prepareDataForBulkIndexing(fileNamesArray, dataType, filterAfterDate) ==
  IF fileNamesArray = <<>> THEN <<>>
  ELSE BulkLines(FilterRecords(ReadJsonlFile(Head(fileNamesArray), dataType),
                               filterAfterDate), dataType)
       \o prepareDataForBulkIndexing(Tail(fileNamesArray), dataType, filterAfterDate)

\* the documents of a bulk payload (every second line)
PayloadDocs(payload) == [ i \in 1..(Len(payload) \div 2) |-> payload[2 * i].dateutc ]

\* ------------------------------------------- IndexData (storage collaborator)
\* getMostRecentDoc with size 1, sort dateutc:desc
MostRecentDoc(c, dataType) ==
  IF esDocs[c][dataType] = {} THEN <<>> ELSE << SetMax(esDocs[c][dataType]) >>

\* settled results of indexer.initialize()
InitializeOk(c) ==
  [status |-> "fulfilled", outcome |-> "success", isArray |-> TRUE,
   hits |-> MostRecentDoc(c, "imperial")]

InitializePending ==
  [status |-> "pending", outcome |-> "", isArray |-> FALSE, hits |-> <<>>]

InitializeFailures ==
  { [status |-> "rejected", outcome |-> "", isArray |-> FALSE, hits |-> <<>>],
    [status |-> "fulfilled", outcome |-> "no connection", isArray |-> FALSE, hits |-> <<>>],
    [status |-> "fulfilled", outcome |-> "error", isArray |-> FALSE, hits |-> <<>>],
    [status |-> "fulfilled", outcome |-> "success", isArray |-> FALSE, hits |-> <<>>] }

\* ------------------------------------------------------------------ main.js
\* lines 94-104 / 106-116: extraction of the cluster's latest indexed date
LatestDateFrom(settled) ==
  IF settled.status = "fulfilled" /\ settled.outcome = "success"
  THEN IF settled.isArray /\ Len(settled.hits) > 0 /\ Truthy(settled.hits[1])
       THEN settled.hits[1]
       ELSE null
  ELSE null

\* mutation: the newer of the two cluster dates is used
FetchFromDate_Newest(prodLatestDate, stagingLatestDate) ==
  IF prodLatestDate # null /\ stagingLatestDate # null
  THEN IF prodLatestDate >= stagingLatestDate THEN prodLatestDate ELSE stagingLatestDate
  ELSE IF prodLatestDate # null THEN prodLatestDate
  ELSE IF stagingLatestDate # null THEN stagingLatestDate
  ELSE null

\* mutation: a cluster date is used only when both clusters have one
FetchFromDate_BothOrNothing(prodLatestDate, stagingLatestDate) ==
  IF prodLatestDate # null /\ stagingLatestDate # null
  THEN MathMin(prodLatestDate, stagingLatestDate)
  ELSE null

\* lines 123-136: the fetch start date
FetchFromDate(prodLatestDate, stagingLatestDate) ==
  IF prodLatestDate # null /\ stagingLatestDate # null
  THEN MathMin(prodLatestDate, stagingLatestDate)
  ELSE IF prodLatestDate # null THEN prodLatestDate
  ELSE IF stagingLatestDate # null THEN stagingLatestDate
  ELSE null

\* mutation: no filter date is handed over
FilterAfterDate_None(r, c) == null

\* mutation: every cluster is filtered by the shared fetch origin
FilterAfterDate_FetchOrigin(r, c) == fetchFromDate[r]

\* lines 187 / 204: the filter date handed to prepareDataForBulkIndexing
FilterAfterDate(r, c) == clusterLatestDate[r][c]

Terminated(r) == pc[r] \in {"Done", "Aborted"}

\* the cron schedule of one machine: the runs that come before run r
EarlierRuns(r) == IF r = "mac" THEN {"pi"} ELSE {}

\* --------------------------------------------------------------------- Init
\* what a cluster may hold before the runs: nothing, or readings up to some date
InitialDocs == { 0..b : b \in (0 - 1)..MaxTs }

\* a JSONL file holds readings in ascending dateutc order
JsonlContents == { SortedSeq(S) : S \in SUBSET Timestamps }

InitRuns ==
  /\ pc = [r \in Runs |-> "Idle"]
  /\ initResult = [r \in Runs |-> [c \in Clusters |-> InitializePending]]
  /\ clusterLatestDate = [r \in Runs |-> [c \in Clusters |-> null]]
  /\ fetchFromDate = [r \in Runs |-> null]
  /\ imperialJSONLFileNames = [r \in Runs |-> <<>>]
  /\ metricJSONLFileNames = [r \in Runs |-> <<>>]
  /\ getNewDataPromiseResult = [r \in Runs |-> "pending"]
  /\ ipc = [r \in Runs |-> [c \in Clusters |-> "notStarted"]]
  /\ results = [r \in Runs |-> [c \in Clusters |-> "none"]]
  /\ bulkCalls = [r \in Runs |-> [c \in Clusters |-> [d \in DataTypes |-> <<>>]]]
  /\ bulkWritten = [r \in Runs |-> [c \in Clusters |-> [d \in DataTypes |-> {}]]]
  /\ returned = [r \in Runs |-> "pending"]

\* results of backfillSingleCluster and of runBackfill before they exist
NoResult ==
  [status |-> "none", cluster |-> "", message |-> "", dataSource |-> "unknown",
   imperialDocs |-> 0, metricDocs |-> 0]

NoBoundaries == [gapFound |-> FALSE, startEpoch |-> null, endEpoch |-> null]

NoArg == [given |-> FALSE, fields |-> <<>>]

\* the backfill script is not running
BackfillNotRunning ==
  /\ cliArgs = [prod |-> FALSE, staging |-> FALSE, both |-> FALSE,
                from |-> NoArg, to |-> NoArg, yes |-> FALSE]
  /\ bpc = "notStarted"
  /\ clusters = <<>>
  /\ clusterIndex = 0
  /\ fromDate = null
  /\ toDate = null
  /\ boundaries = [c \in Clusters |-> NoBoundaries]
  /\ calls = [c \in Clusters |-> {}]
  /\ answer = [c \in Clusters |-> "none"]
  /\ dataSource = "unknown"
  /\ dataRecords = <<>>
  /\ filesForIndexing = <<>>
  /\ tempJsonl = <<>>
  /\ backfillBulkCalls = [c \in Clusters |-> [d \in DataTypes |-> <<>>]]
  /\ clusterResults = [c \in Clusters |-> NoResult]
  /\ runResult = [status |-> "none", mode |-> "", error |-> ""]
  /\ exitCode = null
  /\ earlierResults = <<>>
  /\ stationReadings = Timestamps

\* the archive script is not running
ArchiveNotRunning ==
  /\ apc = "notStarted"
  /\ archiveArgs = [dryRun |-> FALSE, archivePath |-> "unset"]
  /\ cutoffDate = null
  /\ latestIndexed = [c \in Clusters |-> null]
  /\ dataFileSets = {}
  /\ filesToArchive = <<>>
  /\ archivedFileSets = {}

InitClusters ==
  \E ip \in InitialDocs, is \in InitialDocs :
    esDocs = [c \in Clusters |->
                [d \in DataTypes |-> IF c = "PRODUCTION" THEN ip ELSE is]]

\* archives whose files cover consecutive time ranges without gaps inside a file
Contiguous(s) == \A i \in 1..(Len(s) - 1) : s[i + 1] = s[i] + 1
ConsecutiveArchives ==
  { f \in [FileNames -> {s \in JsonlContents : Contiguous(s)}] :
      \A i \in FileNames, j \in FileNames :
        (i < j /\ f[i] # <<>> /\ f[j] # <<>>) => f[i][Len(f[i])] < f[j][1] }

\* one run of the cron job, with up to MaxFaults environment failures
Init ==
  /\ InitRuns
  /\ ArchiveNotRunning
  /\ InitClusters
  /\ localFiles \in ConsecutiveArchives
  /\ schedule = "single"
  /\ BackfillNotRunning
  /\ faultsLeft = MaxFaults

\* ------------------------------------------------------------------ actions
\* mutation: the fetch is issued at once, without awaiting the two
\* initialize() calls
StartMain_FetchesAtOnce(r) ==
  /\ pc[r] = "Idle"
  /\ CASE schedule = "single" -> r = "pi"
       [] schedule = "sequential" -> \A o \in EarlierRuns(r) : Terminated(o)
       [] OTHER -> TRUE
  /\ pc' = [pc EXCEPT ![r] = "Fetching"]
  /\ UNCHANGED <<esDocs, localFiles, schedule, faultsLeft, initResult,
                 clusterLatestDate, fetchFromDate, imperialJSONLFileNames,
                 metricJSONLFileNames, getNewDataPromiseResult, ipc, results, bulkCalls,
                 bulkWritten, returned>>
  /\ UNCHANGED backfillVars
  /\ UNCHANGED archiveVars

\* main() is invoked (lines 68-92): both initialize() calls are issued
StartMain(r) ==
  /\ pc[r] = "Idle"
  /\ CASE schedule = "single" -> r = "pi"
       [] schedule = "sequential" -> \A o \in EarlierRuns(r) : Terminated(o)
       [] OTHER -> TRUE
  /\ pc' = [pc EXCEPT ![r] = "ResolvingBoundaries"]
  /\ UNCHANGED <<esDocs, localFiles, schedule, faultsLeft, initResult,
                 clusterLatestDate, fetchFromDate, imperialJSONLFileNames,
                 metricJSONLFileNames, getNewDataPromiseResult, ipc, results, bulkCalls,
                 bulkWritten, returned>>
  /\ UNCHANGED backfillVars
  /\ UNCHANGED archiveVars

\* mutation: the two initialize() calls are joined with Promise.all, so a
\* rejected one rejects main
InitializeSettles_RejectionAborts(r, c) ==
  /\ pc[r] = "ResolvingBoundaries"
  /\ initResult[r][c] = InitializePending
  /\ \E res \in {InitializeOk(c)} \cup InitializeFailures :
       /\ res \in InitializeFailures => faultsLeft > 0
       /\ faultsLeft' = IF res \in InitializeFailures THEN faultsLeft - 1 ELSE faultsLeft
       /\ initResult' = [initResult EXCEPT ![r][c] = res]
       /\ pc' = [pc EXCEPT ![r] = IF res.status = "rejected" THEN "Aborted" ELSE @]
       /\ returned' = [returned EXCEPT ![r] =
             IF res.status = "rejected" THEN "rejected: initialize error" ELSE @]
  /\ UNCHANGED <<esDocs, localFiles, schedule, clusterLatestDate, fetchFromDate,
                 imperialJSONLFileNames, metricJSONLFileNames, getNewDataPromiseResult,
                 ipc, results, bulkCalls, bulkWritten>>
  /\ UNCHANGED backfillVars
  /\ UNCHANGED archiveVars

\* one initialize() promise settles (lines 89-92)
InitializeSettles(r, c) ==
  /\ pc[r] = "ResolvingBoundaries"
  /\ initResult[r][c] = InitializePending
  /\ \E res \in {InitializeOk(c)} \cup InitializeFailures :
       /\ res \in InitializeFailures => faultsLeft > 0
       /\ faultsLeft' = IF res \in InitializeFailures THEN faultsLeft - 1 ELSE faultsLeft
       /\ initResult' = [initResult EXCEPT ![r][c] = res]
  /\ UNCHANGED <<esDocs, localFiles, schedule, pc, clusterLatestDate, fetchFromDate,
                 imperialJSONLFileNames, metricJSONLFileNames, getNewDataPromiseResult,
                 ipc, results, bulkCalls, bulkWritten, returned>>
  /\ UNCHANGED backfillVars
  /\ UNCHANGED archiveVars

\* mutation: the two initialize() calls are raced, main goes on as soon as
\* one of them has settled
CallFetch_AfterFirstSettled(r) ==
  /\ pc[r] = "ResolvingBoundaries"
  /\ \E c \in Clusters : initResult[r][c] # InitializePending
  /\ LET prodLatestDate == LatestDateFrom(initResult[r]["PRODUCTION"])
         stagingLatestDate == LatestDateFrom(initResult[r]["STAGING"])
     IN /\ clusterLatestDate' = [clusterLatestDate EXCEPT ![r] =
              [c \in Clusters |-> IF c = "PRODUCTION" THEN prodLatestDate
                                  ELSE stagingLatestDate]]
        /\ fetchFromDate' = [fetchFromDate EXCEPT ![r] =
              FetchFromDate(prodLatestDate, stagingLatestDate)]
  /\ pc' = [pc EXCEPT ![r] = "Fetching"]
  /\ UNCHANGED <<esDocs, localFiles, schedule, faultsLeft, initResult,
                 imperialJSONLFileNames, metricJSONLFileNames, getNewDataPromiseResult,
                 ipc, results, bulkCalls, bulkWritten, returned>>
  /\ UNCHANGED backfillVars
  /\ UNCHANGED archiveVars

\* Promise.allSettled resolved; lines 94-143 read the latest dates, compute the
\* fetch start date and call the fetcher
CallFetch(r) ==
  /\ pc[r] = "ResolvingBoundaries"
  /\ \A c \in Clusters : initResult[r][c] # InitializePending
  /\ LET prodLatestDate == LatestDateFrom(initResult[r]["PRODUCTION"])
         stagingLatestDate == LatestDateFrom(initResult[r]["STAGING"])
     IN /\ clusterLatestDate' = [clusterLatestDate EXCEPT ![r] =
              [c \in Clusters |-> IF c = "PRODUCTION" THEN prodLatestDate
                                  ELSE stagingLatestDate]]
        /\ fetchFromDate' = [fetchFromDate EXCEPT ![r] =
              FetchFromDate(prodLatestDate, stagingLatestDate)]
  /\ pc' = [pc EXCEPT ![r] = "Fetching"]
  /\ UNCHANGED <<esDocs, localFiles, schedule, faultsLeft, initResult,
                 imperialJSONLFileNames, metricJSONLFileNames, getNewDataPromiseResult,
                 ipc, results, bulkCalls, bulkWritten, returned>>
  /\ UNCHANGED backfillVars
  /\ UNCHANGED archiveVars

\* mutation: 'too early' is thrown instead of leaving nothing to index
StartIndexing_TooEarlyThrows(r, fetchResult, imperialNames, metricNames) ==
  IF fetchResult = "too early"
  THEN /\ getNewDataPromiseResult' = [getNewDataPromiseResult EXCEPT ![r] = fetchResult]
       /\ pc' = [pc EXCEPT ![r] = "Aborted"]
       /\ returned' = [returned EXCEPT ![r] = "rejected: too early"]
       /\ UNCHANGED <<imperialJSONLFileNames, metricJSONLFileNames, ipc>>
  ELSE /\ getNewDataPromiseResult' = [getNewDataPromiseResult EXCEPT ![r] = fetchResult]
       /\ imperialJSONLFileNames' = [imperialJSONLFileNames EXCEPT ![r] = imperialNames]
       /\ metricJSONLFileNames' = [metricJSONLFileNames EXCEPT ![r] = metricNames]
       /\ pc' = [pc EXCEPT ![r] = "CommittingPerCluster"]
       /\ ipc' = [ipc EXCEPT ![r] = [c \in Clusters |-> "imperial"]]
       /\ UNCHANGED returned

\* lines 145-166 and 175-229: the file names are set and indexToCluster is
\* called for both clusters
StartIndexing(r, fetchResult, imperialNames, metricNames) ==
  /\ getNewDataPromiseResult' = [getNewDataPromiseResult EXCEPT ![r] = fetchResult]
  /\ imperialJSONLFileNames' = [imperialJSONLFileNames EXCEPT ![r] = imperialNames]
  /\ metricJSONLFileNames' = [metricJSONLFileNames EXCEPT ![r] = metricNames]
  /\ pc' = [pc EXCEPT ![r] = "CommittingPerCluster"]
  /\ ipc' = [ipc EXCEPT ![r] = [c \in Clusters |-> "imperial"]]
  /\ UNCHANGED returned

\* mutation: the catch block logs the error and lets main carry on
AbortMain_Swallowed(r, fetchResult, err) ==
  StartIndexing(r, fetchResult, <<>>, <<>>)

\* lines 168-173: the catch block of step 1 rethrows
AbortMain(r, fetchResult, err) ==
  /\ getNewDataPromiseResult' = [getNewDataPromiseResult EXCEPT ![r] = fetchResult]
  /\ pc' = [pc EXCEPT ![r] = "Aborted"]
  /\ returned' = [returned EXCEPT ![r] = err]
  /\ UNCHANGED <<imperialJSONLFileNames, metricJSONLFileNames, ipc>>

\* mutation: when it is too early, every local file is handed to the indexers
FileNamesWhenTooEarly_AllLocalFiles == SortedSeq(FileNames)

\* lines 148-150: 'too early' leaves no file names to index
FileNamesWhenTooEarly == <<>>

\* getDataForDateRanges settles (lines 143-173)
FetchSettles(r) ==
  /\ pc[r] = "Fetching"
  /\ \/ \* 'too early'
        /\ StartIndexing(r, "too early", FileNamesWhenTooEarly, FileNamesWhenTooEarly)
        /\ UNCHANGED faultsLeft
     \/ \* { dataFetchForDates, dataFileNames }, conversion succeeds
        /\ \E fetchedFileNames \in NewestFiles(MaxFiles) :
             StartIndexing(r, "data", fetchedFileNames, fetchedFileNames)
        /\ UNCHANGED faultsLeft
     \/ \* an object without the expected keys
        /\ StartIndexing(r, "other", <<>>, <<>>)
        /\ UNCHANGED faultsLeft
     \/ \* the fetch rejects
        /\ faultsLeft > 0
        /\ faultsLeft' = faultsLeft - 1
        /\ AbortMain(r, "rejected", "rejected: fetch error")
     \/ \* data fetched, convertDataToJsonl throws
        /\ faultsLeft > 0
        /\ faultsLeft' = faultsLeft - 1
        /\ AbortMain(r, "data", "rejected: convert error")
  /\ UNCHANGED <<esDocs, localFiles, schedule, initResult, clusterLatestDate,
                 fetchFromDate, results, bulkCalls, bulkWritten>>
  /\ UNCHANGED backfillVars
  /\ UNCHANGED archiveVars

\* indexer.bulkIndexDocuments(payload, dataType) resolves: the cluster stores
\* every document it does not reject and reports the rejected ones
BulkResolves(r, c, dataType, payload, rejected) ==
  LET docs == PayloadDocs(payload)
      accepted == Range(docs) \ rejected
  IN /\ esDocs' = [esDocs EXCEPT ![c][dataType] = @ \cup accepted]
     /\ bulkCalls' = [bulkCalls EXCEPT ![r][c][dataType] =
           Append(@, [docs |-> docs, outcome |-> "resolved", erroredDocuments |-> rejected])]
     /\ bulkWritten' = [bulkWritten EXCEPT ![r][c][dataType] = @ \cup accepted]

\* indexer.bulkIndexDocuments(payload, dataType) rejects: nothing is stored
BulkRejects(r, c, dataType, payload) ==
  /\ bulkCalls' = [bulkCalls EXCEPT ![r][c][dataType] =
        Append(@, [docs |-> PayloadDocs(payload), outcome |-> "rejected",
                   erroredDocuments |-> {}])]
  /\ UNCHANGED <<esDocs, bulkWritten>>

\* mutation: the rejection is not caught per cluster, every indexToCluster stops
IndexingFailed_StopsAll(r, c) ==
  /\ results' = [results EXCEPT ![r][c] = "error"]
  /\ ipc' = [ipc EXCEPT ![r] = [k \in Clusters |-> "done"]]

\* mutation: each category has its own try, a failed imperial call is followed
\* by the metric call
IndexingFailed_CarriesOn(r, c) ==
  /\ results' = [results EXCEPT ![r][c] = "error"]
  /\ ipc' = [ipc EXCEPT ![r][c] = IF @ = "imperial" THEN "metric" ELSE "done"]

\* lines 217-220: the catch of indexToCluster
IndexingFailed(r, c) ==
  /\ results' = [results EXCEPT ![r][c] = "error"]
  /\ ipc' = [ipc EXCEPT ![r][c] = "done"]

\* lines 181-196: the imperial part of indexToCluster
IndexImperial(r, c) ==
  /\ pc[r] = "CommittingPerCluster"
  /\ ipc[r][c] = "imperial"
  /\ LET imperialData == prepareDataForBulkIndexing(imperialJSONLFileNames[r],
                                                    "imperial", FilterAfterDate(r, c))
     IN IF Len(imperialJSONLFileNames[r]) > 0 /\ Len(imperialData) > 0
        THEN \/ /\ BulkResolves(r, c, "imperial", imperialData, {})
                /\ ipc' = [ipc EXCEPT ![r][c] = "metric"]
                /\ UNCHANGED <<results, faultsLeft>>
             \/ /\ faultsLeft > 0
                /\ faultsLeft' = faultsLeft - 1
                /\ \E d \in Range(PayloadDocs(imperialData)) :
                     BulkResolves(r, c, "imperial", imperialData, {d})
                /\ ipc' = [ipc EXCEPT ![r][c] = "metric"]
                /\ UNCHANGED results
             \/ /\ faultsLeft > 0
                /\ faultsLeft' = faultsLeft - 1
                /\ BulkRejects(r, c, "imperial", imperialData)
                /\ IndexingFailed(r, c)
        ELSE /\ ipc' = [ipc EXCEPT ![r][c] = "metric"]
             /\ UNCHANGED <<esDocs, bulkCalls, bulkWritten, results, faultsLeft>>
  /\ UNCHANGED <<localFiles, schedule, pc, initResult, clusterLatestDate,
                 fetchFromDate, imperialJSONLFileNames, metricJSONLFileNames,
                 getNewDataPromiseResult, returned>>
  /\ UNCHANGED backfillVars
  /\ UNCHANGED archiveVars

\* mutation: a cluster with nothing to index reports an error
IndexMetric_EmptyIsError(r, c) ==
  /\ pc[r] = "CommittingPerCluster"
  /\ ipc[r][c] = "metric"
  /\ LET metricData == prepareDataForBulkIndexing(metricJSONLFileNames[r],
                                                  "metric", FilterAfterDate(r, c))
         succeed == /\ results' = [results EXCEPT ![r][c] = "success"]
                    /\ ipc' = [ipc EXCEPT ![r][c] = "done"]
     IN IF Len(metricJSONLFileNames[r]) > 0 /\ Len(metricData) > 0
        THEN \/ /\ BulkResolves(r, c, "metric", metricData, {})
                /\ succeed
                /\ UNCHANGED faultsLeft
             \/ /\ faultsLeft > 0
                /\ faultsLeft' = faultsLeft - 1
                /\ \E d \in Range(PayloadDocs(metricData)) :
                     BulkResolves(r, c, "metric", metricData, {d})
                /\ succeed
             \/ /\ faultsLeft > 0
                /\ faultsLeft' = faultsLeft - 1
                /\ BulkRejects(r, c, "metric", metricData)
                /\ IndexingFailed(r, c)
        ELSE /\ IndexingFailed(r, c)
             /\ UNCHANGED <<esDocs, bulkCalls, bulkWritten, faultsLeft>>
  /\ UNCHANGED <<localFiles, schedule, pc, initResult, clusterLatestDate,
                 fetchFromDate, imperialJSONLFileNames, metricJSONLFileNames,
                 getNewDataPromiseResult, returned>>
  /\ UNCHANGED backfillVars
  /\ UNCHANGED archiveVars

\* lines 198-216: the metric part of indexToCluster and its success result
IndexMetric(r, c) ==
  /\ pc[r] = "CommittingPerCluster"
  /\ ipc[r][c] = "metric"
  /\ LET metricData == prepareDataForBulkIndexing(metricJSONLFileNames[r],
                                                  "metric", FilterAfterDate(r, c))
         succeed == /\ results' = [results EXCEPT ![r][c] = "success"]
                    /\ ipc' = [ipc EXCEPT ![r][c] = "done"]
     IN IF Len(metricJSONLFileNames[r]) > 0 /\ Len(metricData) > 0
        THEN \/ /\ BulkResolves(r, c, "metric", metricData, {})
                /\ succeed
                /\ UNCHANGED faultsLeft
             \/ /\ faultsLeft > 0
                /\ faultsLeft' = faultsLeft - 1
                /\ \E d \in Range(PayloadDocs(metricData)) :
                     BulkResolves(r, c, "metric", metricData, {d})
                /\ succeed
             \/ /\ faultsLeft > 0
                /\ faultsLeft' = faultsLeft - 1
                /\ BulkRejects(r, c, "metric", metricData)
                /\ IndexingFailed(r, c)
        ELSE /\ succeed
             /\ UNCHANGED <<esDocs, bulkCalls, bulkWritten, faultsLeft>>
  /\ UNCHANGED <<localFiles, schedule, pc, initResult, clusterLatestDate,
                 fetchFromDate, imperialJSONLFileNames, metricJSONLFileNames,
                 getNewDataPromiseResult, returned>>
  /\ UNCHANGED backfillVars
  /\ UNCHANGED archiveVars

\* mutation: a cluster that reported an error makes main reject
ReportResults_RejectsOnError(r) ==
  /\ pc[r] = "CommittingPerCluster"
  /\ \A c \in Clusters : ipc[r][c] = "done"
  /\ LET failed == \E c \in Clusters : results[r][c] = "error"
     IN /\ pc' = [pc EXCEPT ![r] = IF failed THEN "Aborted" ELSE "Done"]
        /\ returned' = [returned EXCEPT ![r] =
              IF failed THEN "rejected: indexing error" ELSE "Done"]
  /\ UNCHANGED <<esDocs, localFiles, schedule, faultsLeft, initResult,
                 clusterLatestDate, fetchFromDate, imperialJSONLFileNames,
                 metricJSONLFileNames, getNewDataPromiseResult, ipc, results, bulkCalls,
                 bulkWritten>>
  /\ UNCHANGED backfillVars
  /\ UNCHANGED archiveVars

\* lines 226-242: both indexToCluster promises settled, results logged, 'Done'
ReportResults(r) ==
  /\ pc[r] = "CommittingPerCluster"
  /\ \A c \in Clusters : ipc[r][c] = "done"
  /\ pc' = [pc EXCEPT ![r] = "Done"]
  /\ returned' = [returned EXCEPT ![r] = "Done"]
  /\ UNCHANGED <<esDocs, localFiles, schedule, faultsLeft, initResult,
                 clusterLatestDate, fetchFromDate, imperialJSONLFileNames,
                 metricJSONLFileNames, getNewDataPromiseResult, ipc, results, bulkCalls,
                 bulkWritten>>
  /\ UNCHANGED backfillVars
  /\ UNCHANGED archiveVars

Next ==
  \/ \E r \in Runs : StartMain(r)
  \/ \E r \in Runs, c \in Clusters : InitializeSettles(r, c)
  \/ \E r \in Runs : CallFetch(r)
  \/ \E r \in Runs : FetchSettles(r)
  \/ \E r \in Runs, c \in Clusters : IndexImperial(r, c)
  \/ \E r \in Runs, c \in Clusters : IndexMetric(r, c)
  \/ \E r \in Runs : ReportResults(r)

Spec == Init /\ [][Next]_vars

\* one machine: the cron job runs again after the previous run ended;
\* at most one environment failure over the two runs
InitSequential ==
  /\ InitRuns
  /\ ArchiveNotRunning
  /\ InitClusters
  /\ localFiles \in ConsecutiveArchives
  /\ schedule = "sequential"
  /\ BackfillNotRunning
  /\ faultsLeft = IF MaxFaults > 0 THEN 1 ELSE 0

SpecSequential == InitSequential /\ [][Next]_vars

\* two machines: their cron jobs may overlap in any way; a healthy environment
InitConcurrent ==
  /\ InitRuns
  /\ ArchiveNotRunning
  /\ InitClusters
  /\ localFiles \in ConsecutiveArchives
  /\ schedule = "concurrent"
  /\ BackfillNotRunning
  /\ faultsLeft = 0

SpecConcurrent == InitConcurrent /\ [][Next]_vars

\* ------------------------------------------------ backfill.js: pure functions
RECURSIVE SetMin(_)
SetMin(S) ==
  IF S = {} THEN null
  ELSE LET x == CHOOSE y \in S : TRUE
           m == SetMin(S \ {x})
       IN IF m = null \/ x < m THEN x ELSE m

\* a date argument as typed on the command line: the numeric fields of its text
DateText(fields) == [given |-> TRUE, fields |-> fields]

IsLeapYear(y) == (y % 4 = 0 /\ y % 100 # 0) \/ y % 400 = 0

DaysInMonth(y, m) ==
  IF m = 2 THEN (IF IsLeapYear(y) THEN 29 ELSE 28)
  ELSE IF m \in {4, 6, 9, 11} THEN 30 ELSE 31

RECURSIVE DaysBeforeMonth(_, _)
DaysBeforeMonth(y, m) ==
  IF m <= 1 THEN 0 ELSE DaysBeforeMonth(y, m - 1) + DaysInMonth(y, m - 1)

\* the year whose first day is day 1 of the model's epoch
EpochYear == 2024

\* lines 207-215: moment.tz(dateString, 'YYYY-MM-DD', 'UTC'), midnight UTC
parseDate(dateString) ==
  LET f == dateString.fields
      isValid == /\ Len(f) = 3
                 /\ f[1] = EpochYear
                 /\ f[2] \in 1..12
                 /\ f[3] \in 1..DaysInMonth(f[1], f[2])
  IN [isValid |-> isValid,
      epoch |-> IF isValid THEN (DaysBeforeMonth(f[1], f[2]) + f[3]) * DayMs ELSE null]

ValidationError(error) ==
  [valid |-> FALSE, error |-> error, clusters |-> <<>>, fromDate |-> null, toDate |-> null]

\* mutation: --both puts STAGING first
ClustersOf_StagingFirst(args) ==
  IF args.both THEN <<"STAGING", "PRODUCTION">>
  ELSE IF args.prod THEN <<"PRODUCTION">>
  ELSE IF args.staging THEN <<"STAGING">>
  ELSE <<>>

\* lines 151-162: the clusters array
ClustersOf(args) ==
  IF args.both THEN <<"PRODUCTION", "STAGING">>
  ELSE IF args.prod THEN <<"PRODUCTION">>
  ELSE IF args.staging THEN <<"STAGING">>
  ELSE <<>>

\* mutation: the order of the two dates is not checked
validateArgs_NoOrderCheck(args) ==
  IF ~args.prod /\ ~args.staging /\ ~args.both
  THEN ValidationError("Must specify --prod, --staging, or --both")
  ELSE IF ~args.from.given \/ ~args.to.given
  THEN ValidationError("Must specify both --from and --to dates")
  ELSE IF ~parseDate(args.from).isValid \/ ~parseDate(args.to).isValid
  THEN ValidationError("Invalid date format")
  ELSE [valid |-> TRUE, error |-> "", clusters |-> ClustersOf(args),
        fromDate |-> parseDate(args.from).epoch, toDate |-> parseDate(args.to).epoch]

\* lines 144-200
validateArgs(args) ==
  IF ~args.prod /\ ~args.staging /\ ~args.both
  THEN ValidationError("Must specify --prod, --staging, or --both")
  ELSE IF ~args.from.given \/ ~args.to.given
  THEN ValidationError("Must specify both --from and --to dates")
  ELSE IF ~parseDate(args.from).isValid \/ ~parseDate(args.to).isValid
  THEN ValidationError("Invalid date format")
  ELSE IF parseDate(args.from).epoch >= parseDate(args.to).epoch
  THEN ValidationError("Start date must be before end date")
  ELSE [valid |-> TRUE, error |-> "", clusters |-> ClustersOf(args),
        fromDate |-> parseDate(args.from).epoch, toDate |-> parseDate(args.to).epoch]

\* Date.now(): the backfill runs after every reading of the station
Now == (MaxDay + 1) * DayMs

\* esClientMethods.searchDocsByDateRange with size 1: range gte / lte on
\* dateutc of the imperial indices, sorted as asked; undefined on a search error
SearchUndefined == [defined |-> FALSE, hits |-> <<>>]

\* mutation: the range excludes its two ends (gt / lt)
searchDocsByDateRange_Exclusive(c, startDate, endDate, sort) ==
  LET matching == { d \in esDocs[c]["imperial"] : d > startDate /\ d < endDate }
  IN [defined |-> TRUE,
      hits |-> IF matching = {} THEN <<>>
               ELSE IF sort = "dateutc:desc" THEN << SetMax(matching) >>
               ELSE << SetMin(matching) >>]

searchDocsByDateRange(c, startDate, endDate, sort) ==
  LET matching == { d \in esDocs[c]["imperial"] : d >= startDate /\ d <= endDate }
  IN [defined |-> TRUE,
      hits |-> IF matching = {} THEN <<>>
               ELSE IF sort = "dateutc:desc" THEN << SetMax(matching) >>
               ELSE << SetMin(matching) >>]

\* mutation: a window that was backfilled by an earlier invocation counts as
\* covered
GapFound_NotAfterBackfill(startEpoch, endEpoch) ==
  /\ ~((endEpoch - startEpoch) < GapThresholdMinutes * MinuteMs)
  /\ earlierResults = <<>>

\* lines 283-288: moment.duration(ms).asMinutes() < 10 means no gap
GapFound(startEpoch, endEpoch) ==
  ~((endEpoch - startEpoch) < GapThresholdMinutes * MinuteMs)

\* lines 261-298
findDataGapBoundaries(lastDocBefore, firstDocAfter, from, to) ==
  LET startEpoch == IF lastDocBefore.defined /\ Len(lastDocBefore.hits) > 0
                       /\ Truthy(lastDocBefore.hits[1])
                    THEN lastDocBefore.hits[1] ELSE from
      endEpoch == IF firstDocAfter.defined /\ Len(firstDocAfter.hits) > 0
                     /\ Truthy(firstDocAfter.hits[1])
                  THEN firstDocAfter.hits[1] ELSE to
  IN [gapFound |-> GapFound(startEpoch, endEpoch),
      startEpoch |-> startEpoch, endEpoch |-> endEpoch]

\* String.prototype.toLowerCase on what the operator may type
ToLowerCase(text) ==
  CASE text = "Y" -> "y"
    [] text = "YES" -> "yes"
    [] OTHER -> text

Answers == {"y", "YES", "n", ""}

\* mutation: whatever the operator types counts as a confirmation
Confirms_AnyAnswer(text) == TRUE

\* line 347
Confirms(text) == ToLowerCase(text) = "y" \/ ToLowerCase(text) = "yes"

\* lines 421 / 452 / 604: strictly inside the gap
InGap(d, startEpoch, endEpoch) == d > startEpoch /\ d < endEpoch

\* lines 545-630: the records of all archive files inside the gap, sorted
RECURSIVE RecordsInGapUpTo(_, _, _)
RecordsInGapUpTo(n, startEpoch, endEpoch) ==
  IF n = 0 THEN <<>>
  ELSE RecordsInGapUpTo(n - 1, startEpoch, endEpoch)
       \o SelectSeq(localFiles[n], LAMBDA d : InGap(d, startEpoch, endEpoch))

loadDataFromLocalFiles(startEpoch, endEpoch) ==
  SortedSeq(Range(RecordsInGapUpTo(MaxFiles, startEpoch, endEpoch)))

\* lines 437-463: the files that hold at least one record inside the gap
RECURSIVE FilesWithRelevantRecordsUpTo(_, _, _)
FilesWithRelevantRecordsUpTo(n, startEpoch, endEpoch) ==
  IF n = 0 THEN <<>>
  ELSE FilesWithRelevantRecordsUpTo(n - 1, startEpoch, endEpoch)
       \o (IF \E i \in 1..Len(localFiles[n]) : InGap(localFiles[n][i], startEpoch, endEpoch)
           THEN <<n>> ELSE <<>>)

\* lines 467-480: the temporary file backfill_<start>_<end>
TempFileBaseName == 0

\* lines 493 / 499: the payload of one data type; no filterAfterDate is passed
BackfillPayload(dataType) ==
  IF filesForIndexing = <<TempFileBaseName>>
  THEN BulkLines(tempJsonl, dataType)
  ELSE prepareDataForBulkIndexing(filesForIndexing, dataType, null)

\* what the upstream API may hand back: any run of consecutive station readings
ApiResponses ==
  { SortedSeq({ d \in stationReadings : d >= lo /\ d <= hi }) :
      lo \in stationReadings, hi \in stationReadings }

\* a result object without a cluster property (performBackfill, lines 402-488)
BackfillResult(status, message, source, imperial, metric) ==
  [status |-> status, cluster |-> "", message |-> message, dataSource |-> source,
   imperialDocs |-> imperial, metricDocs |-> metric]

ErrorResult(message) == BackfillResult("error", message, "unknown", 0, 0)

\* a result object with cluster: clusterName (lines 115, 123, 135, 520-522, 534)
WithCluster(c, result) == [result EXCEPT !.cluster = c]

ClusterInFlow == clusters[clusterIndex]

\* ---------------------------------------------------- backfill.js: actions
\* mutation: an error result of one cluster ends the whole run
FinishCluster_StopOnError(c, result) ==
  /\ clusterResults' = [clusterResults EXCEPT ![c] = result]
  /\ dataSource' = "unknown"
  /\ dataRecords' = <<>>
  /\ filesForIndexing' = <<>>
  /\ IF clusterIndex < Len(clusters) /\ result.status # "error"
     THEN /\ clusterIndex' = clusterIndex + 1
          /\ bpc' = "findDataGapBoundaries"
          /\ UNCHANGED runResult
     ELSE /\ bpc' = "returned"
          /\ runResult' = [status |-> result.status, mode |-> "single",
                           error |-> result.message]
          /\ UNCHANGED clusterIndex

\* mutation: the dual-cluster report takes the status error when a cluster
\* ended with an error
FinishCluster_OverallErrorOnClusterError(c, result) ==
  /\ clusterResults' = [clusterResults EXCEPT ![c] = result]
  /\ dataSource' = "unknown"
  /\ dataRecords' = <<>>
  /\ filesForIndexing' = <<>>
  /\ IF clusterIndex < Len(clusters)
     THEN /\ clusterIndex' = clusterIndex + 1
          /\ bpc' = "findDataGapBoundaries"
          /\ UNCHANGED runResult
     ELSE /\ bpc' = "returned"
          /\ runResult' = IF Len(clusters) > 1
                          THEN [status |-> IF \E k \in Clusters :
                                                clusterResults'[k].status = "error"
                                           THEN "error" ELSE "success",
                                mode |-> "dual-cluster", error |-> ""]
                          ELSE [status |-> result.status, mode |-> "single",
                                error |-> IF result.status = "error"
                                          THEN result.message ELSE ""]
          /\ UNCHANGED clusterIndex

\* lines 39-50 and 69-85: backfillSingleCluster returned; the loop goes on to
\* the next cluster or runBackfill returns
FinishCluster(c, result) ==
  /\ clusterResults' = [clusterResults EXCEPT ![c] = result]
  /\ dataSource' = "unknown"
  /\ dataRecords' = <<>>
  /\ filesForIndexing' = <<>>
  /\ IF clusterIndex < Len(clusters)
     THEN /\ clusterIndex' = clusterIndex + 1
          /\ bpc' = "findDataGapBoundaries"
          /\ UNCHANGED runResult
     ELSE /\ bpc' = "returned"
          /\ runResult' = IF Len(clusters) > 1
                          THEN [status |-> "success", mode |-> "dual-cluster", error |-> ""]
                          ELSE [status |-> result.status, mode |-> "single",
                                error |-> IF result.status = "error"
                                          THEN result.message ELSE ""]
          /\ UNCHANGED clusterIndex

\* lines 20-31: runBackfill validates its arguments
ValidateArgs ==
  /\ bpc = "validateArgs"
  /\ LET validation == validateArgs(cliArgs)
     IN IF ~validation.valid
        THEN /\ bpc' = "returned"
             /\ runResult' = [status |-> "error", mode |-> "", error |-> validation.error]
             /\ UNCHANGED <<clusters, clusterIndex, fromDate, toDate>>
        ELSE /\ clusters' = validation.clusters
             /\ fromDate' = validation.fromDate
             /\ toDate' = validation.toDate
             /\ clusterIndex' = 1
             /\ bpc' = "findDataGapBoundaries"
             /\ UNCHANGED runResult
  /\ UNCHANGED <<esDocs, localFiles, faultsLeft, cliArgs, boundaries, calls, answer,
                 dataSource, dataRecords, filesForIndexing, tempJsonl,
                 backfillBulkCalls, clusterResults, stationReadings>>
  /\ UNCHANGED mainVars
  /\ UNCHANGED archiveVars
  /\ UNCHANGED <<exitCode, earlierResults>>

\* mutation: the flow goes on to the confirmation whether or not a gap was found
AfterLocate_AlwaysConfirm(c, found) ==
  /\ boundaries' = [boundaries EXCEPT ![c] = found]
  /\ bpc' = "confirmBackfill"
  /\ UNCHANGED <<clusterResults, dataSource, dataRecords, filesForIndexing,
                 clusterIndex, runResult>>

\* lines 113-116: no gap ends the cluster's flow with a success result
AfterLocate(c, found) ==
  /\ boundaries' = [boundaries EXCEPT ![c] = found]
  /\ IF ~found.gapFound
     THEN FinishCluster(c, WithCluster(c, BackfillResult("success",
                             "No gap found - data already complete", "unknown", 0, 0)))
     ELSE /\ bpc' = "confirmBackfill"
          /\ UNCHANGED <<clusterResults, dataSource, dataRecords, filesForIndexing,
                         clusterIndex, runResult>>

\* lines 104-116 and 225-304: the client is created and the two boundary
\* documents are searched
FindDataGapBoundaries ==
  /\ bpc = "findDataGapBoundaries"
  /\ LET c == ClusterInFlow
     IN \/ \* both searches answer
           /\ calls' = [calls EXCEPT ![c] = @ \cup {"createEsClient", "searchDocsByDateRange"}]
           /\ AfterLocate(c, findDataGapBoundaries(
                                searchDocsByDateRange(c, 0, fromDate, "dateutc:desc"),
                                searchDocsByDateRange(c, toDate, Now, "dateutc:asc"),
                                fromDate, toDate))
           /\ UNCHANGED faultsLeft
        \/ \* a search fails inside esClientMethods and comes back undefined
           /\ faultsLeft > 0
           /\ faultsLeft' = faultsLeft - 1
           /\ calls' = [calls EXCEPT ![c] = @ \cup {"createEsClient", "searchDocsByDateRange"}]
           /\ \E failed \in {"before", "after"} :
                AfterLocate(c, findDataGapBoundaries(
                                 IF failed = "before" THEN SearchUndefined
                                 ELSE searchDocsByDateRange(c, 0, fromDate, "dateutc:desc"),
                                 IF failed = "after" THEN SearchUndefined
                                 ELSE searchDocsByDateRange(c, toDate, Now, "dateutc:asc"),
                                 fromDate, toDate))
        \/ \* createEsClient throws
           /\ faultsLeft > 0
           /\ faultsLeft' = faultsLeft - 1
           /\ calls' = [calls EXCEPT ![c] = @ \cup {"createEsClient"}]
           /\ FinishCluster(c, WithCluster(c, ErrorResult("Connection failed")))
           /\ UNCHANGED boundaries
        \/ \* a search rejects
           /\ faultsLeft > 0
           /\ faultsLeft' = faultsLeft - 1
           /\ calls' = [calls EXCEPT ![c] = @ \cup {"createEsClient", "searchDocsByDateRange"}]
           /\ FinishCluster(c, WithCluster(c, ErrorResult("Search failed")))
           /\ UNCHANGED boundaries
  /\ UNCHANGED <<esDocs, localFiles, cliArgs, clusters, fromDate, toDate, answer,
                 tempJsonl, backfillBulkCalls, stationReadings>>
  /\ UNCHANGED mainVars
  /\ UNCHANGED archiveVars
  /\ UNCHANGED <<exitCode, earlierResults>>

\* lines 119-124 and 314-359
ConfirmBackfill ==
  /\ bpc = "confirmBackfill"
  /\ LET c == ClusterInFlow
         proceed == /\ bpc' = "loadDataFromLocalFiles"
                    /\ UNCHANGED <<clusterResults, dataSource, dataRecords,
                                   filesForIndexing, clusterIndex, runResult>>
     IN IF cliArgs.yes
        THEN /\ proceed
             /\ UNCHANGED <<calls, answer, faultsLeft>>
        ELSE \/ /\ calls' = [calls EXCEPT ![c] = @ \cup {"readlineSync.question"}]
                /\ \E typed \in Answers :
                     /\ answer' = [answer EXCEPT ![c] = typed]
                     /\ IF Confirms(typed)
                        THEN proceed
                        ELSE FinishCluster(c, WithCluster(c, BackfillResult("cancelled",
                               "Backfill cancelled by user", "unknown", 0, 0)))
                /\ UNCHANGED faultsLeft
             \/ \* no terminal to prompt on
                /\ faultsLeft > 0
                /\ faultsLeft' = faultsLeft - 1
                /\ calls' = [calls EXCEPT ![c] = @ \cup {"readlineSync.question"}]
                /\ FinishCluster(c, WithCluster(c, ErrorResult("TTY not available")))
                /\ UNCHANGED answer
  /\ UNCHANGED <<esDocs, localFiles, cliArgs, clusters, fromDate, toDate, boundaries,
                 tempJsonl, backfillBulkCalls, stationReadings>>
  /\ UNCHANGED mainVars
  /\ UNCHANGED archiveVars
  /\ UNCHANGED <<exitCode, earlierResults>>

\* lines 371-383 and 437-463: the local archive is read first
LoadDataFromLocalFiles ==
  /\ bpc = "loadDataFromLocalFiles"
  /\ LET c == ClusterInFlow
         localRecords == loadDataFromLocalFiles(boundaries[c].startEpoch,
                                                boundaries[c].endEpoch)
     IN /\ calls' = [calls EXCEPT ![c] = @ \cup {"loadDataFromLocalFiles"}]
        /\ IF Len(localRecords) > 0
           THEN /\ dataRecords' = localRecords
                /\ dataSource' = "local"
                /\ filesForIndexing' = FilesWithRelevantRecordsUpTo(MaxFiles,
                                         boundaries[c].startEpoch, boundaries[c].endEpoch)
                /\ bpc' = "initialize"
           ELSE /\ bpc' = "getDataForDateRanges"
                /\ UNCHANGED <<dataRecords, dataSource, filesForIndexing>>
  /\ UNCHANGED <<esDocs, localFiles, faultsLeft, cliArgs, clusters, clusterIndex,
                 fromDate, toDate, boundaries, answer, tempJsonl, backfillBulkCalls,
                 clusterResults, runResult, stationReadings>>
  /\ UNCHANGED mainVars
  /\ UNCHANGED archiveVars
  /\ UNCHANGED <<exitCode, earlierResults>>

\* mutation: the fetch is made without bypassing the rate limit
FetchArguments_RateLimited(endEpoch) ==
  [skipSave |-> TRUE, fromDate |-> endEpoch, bypassRateLimit |-> FALSE]

\* line 398: fetcher.getDataForDateRanges(true, endEpoch, true)
FetchArguments(endEpoch) ==
  [skipSave |-> TRUE, fromDate |-> endEpoch, bypassRateLimit |-> TRUE]

\* the entries a fetch with these arguments leaves in calls
FetchCall(arguments) ==
  {"getDataForDateRanges"}
    \cup (IF arguments.skipSave THEN {"skipSave"} ELSE {})
    \cup (IF arguments.bypassRateLimit THEN {"bypassRateLimit"} ELSE {})

\* lines 384-431 and 465-481: nothing local, the upstream API is asked
GetDataForDateRanges ==
  /\ bpc = "getDataForDateRanges"
  /\ LET c == ClusterInFlow
     IN /\ calls' = [calls EXCEPT ![c] =
              @ \cup FetchCall(FetchArguments(boundaries[c].endEpoch))]
        /\ \/ \* 'too early'
              /\ FinishCluster(c, BackfillResult("skipped", "Too early to fetch data",
                                                 "unknown", 0, 0))
              /\ UNCHANGED <<faultsLeft, tempJsonl>>
           \/ \* { dataFetchForDates }
              /\ \E dataFetchForDates \in {<<>>} \cup ApiResponses :
                   LET records == SelectSeq(dataFetchForDates, LAMBDA d :
                                    InGap(d, boundaries[c].startEpoch, boundaries[c].endEpoch))
                   IN IF Len(dataFetchForDates) = 0
                      THEN /\ FinishCluster(c, BackfillResult("skipped",
                                  "No data available in API for specified range",
                                  "unknown", 0, 0))
                           /\ UNCHANGED tempJsonl
                      ELSE IF Len(records) = 0
                      THEN /\ FinishCluster(c, BackfillResult("skipped",
                                  "No data available for specified range",
                                  "unknown", 0, 0))
                           /\ UNCHANGED tempJsonl
                      ELSE /\ dataRecords' = records
                           /\ dataSource' = "api"
                           /\ tempJsonl' = records
                           /\ filesForIndexing' = <<TempFileBaseName>>
                           /\ bpc' = "initialize"
                           /\ UNCHANGED <<clusterResults, clusterIndex, runResult>>
              /\ UNCHANGED faultsLeft
           \/ \* not the expected object, or the fetch rejects
              /\ faultsLeft > 0
              /\ faultsLeft' = faultsLeft - 1
              /\ \/ FinishCluster(c, ErrorResult("Invalid data fetch result from API"))
                 \/ FinishCluster(c, WithCluster(c, ErrorResult("fetch rejected")))
              /\ UNCHANGED tempJsonl
  /\ UNCHANGED <<esDocs, localFiles, cliArgs, clusters, fromDate, toDate, boundaries,
                 answer, backfillBulkCalls, stationReadings>>
  /\ UNCHANGED mainVars
  /\ UNCHANGED archiveVars
  /\ UNCHANGED <<exitCode, earlierResults>>

\* lines 483-489
InitializeIndexer ==
  /\ bpc = "initialize"
  /\ LET c == ClusterInFlow
     IN /\ calls' = [calls EXCEPT ![c] = @ \cup {"initialize"}]
        /\ \/ /\ bpc' = "bulkImperial"
              /\ UNCHANGED <<faultsLeft, clusterResults, dataSource, dataRecords,
                             filesForIndexing, clusterIndex, runResult>>
           \/ /\ faultsLeft > 0
              /\ faultsLeft' = faultsLeft - 1
              /\ \/ FinishCluster(c, ErrorResult("Indexer initialization failed"))
                 \/ FinishCluster(c, WithCluster(c, ErrorResult("initialize rejected")))
  /\ UNCHANGED <<esDocs, localFiles, cliArgs, clusters, fromDate, toDate, boundaries,
                 answer, tempJsonl, backfillBulkCalls, stationReadings>>
  /\ UNCHANGED mainVars
  /\ UNCHANGED archiveVars
  /\ UNCHANGED <<exitCode, earlierResults>>

\* mutation: a bulk call with a rejected document stores nothing
BackfillBulkResolves_AllOrNothing(c, dataType, payload, rejected) ==
  /\ esDocs' = [esDocs EXCEPT ![c][dataType] =
        IF rejected = {} THEN @ \cup Range(PayloadDocs(payload)) ELSE @]
  /\ backfillBulkCalls' = [backfillBulkCalls EXCEPT ![c][dataType] =
        Append(@, [docs |-> PayloadDocs(payload), outcome |-> "resolved",
                   erroredDocuments |-> rejected])]

\* indexer.bulkIndexDocuments(payload, dataType) of the backfill resolves
BackfillBulkResolves(c, dataType, payload, rejected) ==
  /\ esDocs' = [esDocs EXCEPT ![c][dataType] = @ \cup (Range(PayloadDocs(payload)) \ rejected)]
  /\ backfillBulkCalls' = [backfillBulkCalls EXCEPT ![c][dataType] =
        Append(@, [docs |-> PayloadDocs(payload), outcome |-> "resolved",
                   erroredDocuments |-> rejected])]

\* indexer.bulkIndexDocuments(payload, dataType) of the backfill rejects
BackfillBulkRejects(c, dataType, payload) ==
  /\ backfillBulkCalls' = [backfillBulkCalls EXCEPT ![c][dataType] =
        Append(@, [docs |-> PayloadDocs(payload), outcome |-> "rejected",
                   erroredDocuments |-> {}])]
  /\ UNCHANGED esDocs

\* lines 491-495
BulkIndexImperial ==
  /\ bpc = "bulkImperial"
  /\ LET c == ClusterInFlow
         imperialPayload == BackfillPayload("imperial")
         goOn == /\ bpc' = "bulkMetric"
                 /\ UNCHANGED <<clusterResults, dataSource, dataRecords,
                                filesForIndexing, clusterIndex, runResult>>
     IN /\ calls' = [calls EXCEPT ![c] = @ \cup {"bulkIndexDocuments"}]
        /\ \/ /\ BackfillBulkResolves(c, "imperial", imperialPayload, {})
              /\ goOn
              /\ UNCHANGED faultsLeft
           \/ /\ faultsLeft > 0
              /\ faultsLeft' = faultsLeft - 1
              /\ \E d \in Range(PayloadDocs(imperialPayload)) :
                   BackfillBulkResolves(c, "imperial", imperialPayload, {d})
              /\ goOn
           \/ /\ faultsLeft > 0
              /\ faultsLeft' = faultsLeft - 1
              /\ BackfillBulkRejects(c, "imperial", imperialPayload)
              /\ FinishCluster(c, WithCluster(c, ErrorResult("bulk rejected")))
  /\ UNCHANGED <<localFiles, cliArgs, clusters, fromDate, toDate, boundaries, answer,
                 tempJsonl, stationReadings>>
  /\ UNCHANGED mainVars
  /\ UNCHANGED archiveVars
  /\ UNCHANGED <<exitCode, earlierResults>>

\* mutation: the temporary files are left where they are
CleanUpTemporaryFiles_Skipped == tempJsonl

\* lines 503-518: the two temporary files are removed when the data came from
\* the API; what is left of the temporary files
CleanUpTemporaryFiles == IF dataSource = "api" THEN <<>> ELSE tempJsonl

\* mutation: the cleanup removes every file that was handed to the indexer,
\* archive files included
BulkIndexMetric_RemovesIndexedFiles ==
  /\ bpc = "bulkMetric"
  /\ LET c == ClusterInFlow
         metricPayload == BackfillPayload("metric")
         succeed == /\ tempJsonl' = CleanUpTemporaryFiles
                    /\ localFiles' = [f \in FileNames |->
                          IF f \in Range(filesForIndexing) THEN <<>> ELSE localFiles[f]]
                    /\ FinishCluster(c, WithCluster(c, BackfillResult("success", "", dataSource,
                          Len(backfillBulkCalls[c]["imperial"][
                                Len(backfillBulkCalls[c]["imperial"])].docs),
                          Len(PayloadDocs(metricPayload)))))
     IN /\ calls' = [calls EXCEPT ![c] = @ \cup {"bulkIndexDocuments"}]
        /\ \/ /\ BackfillBulkResolves(c, "metric", metricPayload, {})
              /\ succeed
              /\ UNCHANGED faultsLeft
           \/ /\ faultsLeft > 0
              /\ faultsLeft' = faultsLeft - 1
              /\ \E d \in Range(PayloadDocs(metricPayload)) :
                   BackfillBulkResolves(c, "metric", metricPayload, {d})
              /\ succeed
           \/ /\ faultsLeft > 0
              /\ faultsLeft' = faultsLeft - 1
              /\ BackfillBulkRejects(c, "metric", metricPayload)
              /\ FinishCluster(c, WithCluster(c, ErrorResult("bulk rejected")))
              /\ UNCHANGED <<tempJsonl, localFiles>>
  /\ UNCHANGED <<cliArgs, clusters, fromDate, toDate, boundaries, answer,
                 stationReadings>>
  /\ UNCHANGED mainVars
  /\ UNCHANGED archiveVars
  /\ UNCHANGED <<exitCode, earlierResults>>

\* lines 497-530: the metric bulk call, the cleanup and the success result
BulkIndexMetric ==
  /\ bpc = "bulkMetric"
  /\ LET c == ClusterInFlow
         metricPayload == BackfillPayload("metric")
         succeed == /\ tempJsonl' = CleanUpTemporaryFiles
                    /\ FinishCluster(c, WithCluster(c, BackfillResult("success", "", dataSource,
                          Len(backfillBulkCalls[c]["imperial"][
                                Len(backfillBulkCalls[c]["imperial"])].docs),
                          Len(PayloadDocs(metricPayload)))))
     IN /\ calls' = [calls EXCEPT ![c] = @ \cup {"bulkIndexDocuments"}]
        /\ \/ /\ BackfillBulkResolves(c, "metric", metricPayload, {})
              /\ succeed
              /\ UNCHANGED faultsLeft
           \/ /\ faultsLeft > 0
              /\ faultsLeft' = faultsLeft - 1
              /\ \E d \in Range(PayloadDocs(metricPayload)) :
                   BackfillBulkResolves(c, "metric", metricPayload, {d})
              /\ succeed
           \/ /\ faultsLeft > 0
              /\ faultsLeft' = faultsLeft - 1
              /\ BackfillBulkRejects(c, "metric", metricPayload)
              /\ FinishCluster(c, WithCluster(c, ErrorResult("bulk rejected")))
              /\ UNCHANGED tempJsonl
  /\ UNCHANGED <<localFiles, cliArgs, clusters, fromDate, toDate, boundaries, answer,
                 stationReadings>>
  /\ UNCHANGED mainVars
  /\ UNCHANGED archiveVars
  /\ UNCHANGED <<exitCode, earlierResults>>

\* ------------------------------------------------------ backfill.js: Init
\* the readings of the station in the days around the backfill window
BackfillEpochs == { d * DayMs : d \in 1..MaxDay }

\* a cluster holds every reading except one run of consecutive missing ones
GappedDocs(readings) ==
  { readings \ { d \in readings : d >= lo /\ d <= hi } :
      lo \in readings, hi \in readings } \cup {readings}

CalendarDates == { DateText(<<EpochYear, 1, d>>) : d \in 1..MaxDay }

MalformedDates ==
  { DateText(<<>>), DateText(<<EpochYear, 13, 1>>), DateText(<<EpochYear, 2, 30>>) }

\* the cluster selections of the command line (--prod, --staging, --both, none)
ClusterFlags ==
  { [prod |-> FALSE, staging |-> FALSE, both |-> FALSE],
    [prod |-> TRUE, staging |-> FALSE, both |-> FALSE],
    [prod |-> FALSE, staging |-> TRUE, both |-> FALSE],
    [prod |-> FALSE, staging |-> FALSE, both |-> TRUE] }

CommandLine(fl, f, t, y) ==
  [prod |-> fl.prod, staging |-> fl.staging, both |-> fl.both,
   from |-> f, to |-> t, yes |-> y]

\* command lines that name a cluster and two calendar dates
OrderedCommandLines ==
  { CommandLine(fl, f, t, y) :
      fl \in { x \in ClusterFlags : x.prod \/ x.staging \/ x.both },
      f \in CalendarDates, t \in CalendarDates, y \in BOOLEAN }

\* every other kind of command line: no cluster, a missing or malformed date
AnyCommandLines ==
  { CommandLine(fl, f, t, TRUE) :
      fl \in ClusterFlags,
      f \in CalendarDates \cup MalformedDates \cup {NoArg},
      t \in CalendarDates \cup MalformedDates \cup {NoArg} }

\* the archive covers one run of consecutive readings, cut into files
ArchivesOver(readings) ==
  LET sorted == SortedSeq(readings)
      Runs_ == { SubSeq(sorted, i, j) : i \in 1..(Len(sorted) + 1), j \in 0..Len(sorted) }
  IN { f \in [FileNames -> Runs_] :
         /\ \A i \in FileNames, j \in FileNames :
              (i < j /\ f[j] # <<>>) => (f[i] # <<>> /\ f[i][Len(f[i])] < f[j][1])
         /\ \A i \in FileNames, j \in FileNames :
              (j = i + 1 /\ f[j] # <<>>) =>
                ~\E d \in readings : f[i][Len(f[i])] < d /\ d < f[j][1] }

\* the staging cluster next to a production cluster: a mirror of it, a
\* complete copy of the station's readings, or a new and empty cluster
StagingDocs(readings, production) == {production, readings, {}}

\* the clusters a command line does not name keep every reading
BackfillStorage(readings, targets) ==
  /\ stationReadings = readings
  /\ \E ip \in GappedDocs(readings), is \in GappedDocs(readings) :
       /\ "PRODUCTION" \notin targets => ip = readings
       /\ "STAGING" \notin targets => is = readings
       /\ targets = Clusters => is \in StagingDocs(readings, ip)
       /\ esDocs = [c \in Clusters |->
                      [d \in DataTypes |-> IF c = "PRODUCTION" THEN ip ELSE is]]
  /\ localFiles \in ArchivesOver(readings)

BackfillIdle ==
  /\ boundaries = [c \in Clusters |-> NoBoundaries]
  /\ calls = [c \in Clusters |-> {}]
  /\ answer = [c \in Clusters |-> "none"]
  /\ dataSource = "unknown"
  /\ dataRecords = <<>>
  /\ filesForIndexing = <<>>
  /\ tempJsonl = <<>>
  /\ backfillBulkCalls = [c \in Clusters |-> [d \in DataTypes |-> <<>>]]
  /\ clusterResults = [c \in Clusters |-> NoResult]
  /\ runResult = [status |-> "none", mode |-> "", error |-> ""]
  /\ exitCode = null
  /\ earlierResults = <<>>

\* npm run backfill: runBackfill is called with a command line
InitBackfill ==
  /\ InitRuns
  /\ ArchiveNotRunning
  /\ schedule = "backfill"
  /\ faultsLeft = IF MaxFaults > 0 THEN 1 ELSE 0
  /\ cliArgs \in OrderedCommandLines \cup AnyCommandLines
  /\ BackfillStorage(BackfillEpochs,
                     IF cliArgs \in OrderedCommandLines
                     THEN Range(ClustersOf(cliArgs)) ELSE {})
  /\ BackfillIdle
  /\ bpc = "validateArgs"
  /\ clusters = <<>>
  /\ clusterIndex = 0
  /\ fromDate = null
  /\ toDate = null

NextBackfill ==
  \/ ValidateArgs
  \/ FindDataGapBoundaries
  \/ ConfirmBackfill
  \/ LoadDataFromLocalFiles
  \/ GetDataForDateRanges
  \/ InitializeIndexer
  \/ BulkIndexImperial
  \/ BulkIndexMetric

SpecBackfill == InitBackfill /\ [][NextBackfill]_vars

\* readings and window ends around the gap threshold
LocatorEpochs ==
  { DayMs + o : o \in { 0, GapThresholdMinutes * MinuteMs - 1,
                        GapThresholdMinutes * MinuteMs,
                        GapThresholdMinutes * MinuteMs + 1 } }

\* backfillSingleCluster is called for one cluster with any two epochs
InitSingleCluster ==
  /\ InitRuns
  /\ ArchiveNotRunning
  /\ schedule = "backfill"
  /\ faultsLeft = IF MaxFaults > 0 THEN 1 ELSE 0
  /\ stationReadings = LocatorEpochs
  /\ \E target \in Clusters, docs \in SUBSET LocatorEpochs :
       /\ clusters = <<target>>
       /\ esDocs = [c \in Clusters |->
                      [d \in DataTypes |-> IF c = target THEN docs ELSE {}]]
       /\ cliArgs \in { [prod |-> target = "PRODUCTION", staging |-> target = "STAGING",
                         both |-> FALSE, from |-> NoArg, to |-> NoArg, yes |-> y] :
                          y \in BOOLEAN }
  /\ localFiles \in ArchivesOver(LocatorEpochs)
  /\ BackfillIdle
  /\ bpc = "findDataGapBoundaries"
  /\ clusterIndex = 1
  /\ fromDate \in LocatorEpochs
  /\ toDate \in LocatorEpochs

NextSingleCluster ==
  \/ FindDataGapBoundaries
  \/ ConfirmBackfill
  \/ LoadDataFromLocalFiles
  \/ GetDataForDateRanges
  \/ InitializeIndexer
  \/ BulkIndexImperial
  \/ BulkIndexMetric

SpecSingleCluster == InitSingleCluster /\ [][NextSingleCluster]_vars

\* ---------------------------------------------------- bin/runBackfill.js
\* lines 8-73: yargs with demandOption on from / to and the .check of the
\* cluster flags; when it fails yargs prints the message and ends the process
YargsAccepts(args) ==
  /\ args.prod \/ args.staging \/ args.both
  /\ args.from.given
  /\ args.to.given

\* the exit status yargs ends the process with when its validation fails
YargsFailureStatus == 1

\* lines 75-76: the result of runBackfill is logged and the script's promise
\* resolves, whatever the result says, so node ends with status 0
ExitStatus(result) == 0

\* lines 8-73: the command line is parsed
ParseCommandLine ==
  /\ bpc = "yargs"
  /\ IF YargsAccepts(cliArgs)
     THEN /\ bpc' = "validateArgs"
          /\ UNCHANGED exitCode
     ELSE /\ bpc' = "exited"
          /\ exitCode' = YargsFailureStatus
  /\ UNCHANGED <<esDocs, localFiles, faultsLeft, cliArgs, clusters, clusterIndex,
                 fromDate, toDate, boundaries, calls, answer, dataSource, dataRecords,
                 filesForIndexing, tempJsonl, backfillBulkCalls, clusterResults,
                 runResult, earlierResults, stationReadings>>
  /\ UNCHANGED mainVars
  /\ UNCHANGED archiveVars

\* lines 75-76: runBackfill resolved and the process ends
ProcessEnds ==
  /\ bpc = "returned"
  /\ bpc' = "exited"
  /\ exitCode' = ExitStatus(runResult)
  /\ UNCHANGED <<esDocs, localFiles, faultsLeft, cliArgs, clusters, clusterIndex,
                 fromDate, toDate, boundaries, calls, answer, dataSource, dataRecords,
                 filesForIndexing, tempJsonl, backfillBulkCalls, clusterResults,
                 runResult, earlierResults, stationReadings>>
  /\ UNCHANGED mainVars
  /\ UNCHANGED archiveVars

\* environment failures during one invocation: up to two in an unattended
\* run for both clusters (each cluster's flow may fail), one otherwise
CliFaults(args) ==
  IF args.both /\ args.yes THEN MathMin(MaxFaults, 2) ELSE MathMin(MaxFaults, 1)

\* node bin/runBackfill.js is started with a command line
InitBackfillCli ==
  /\ InitRuns
  /\ ArchiveNotRunning
  /\ schedule = "backfill"
  /\ cliArgs \in OrderedCommandLines \cup AnyCommandLines
  /\ faultsLeft = CliFaults(cliArgs)
  /\ BackfillStorage(BackfillEpochs,
                     IF cliArgs \in OrderedCommandLines
                     THEN Range(ClustersOf(cliArgs)) ELSE {})
  /\ BackfillIdle
  /\ bpc = "yargs"
  /\ clusters = <<>>
  /\ clusterIndex = 0
  /\ fromDate = null
  /\ toDate = null

NextBackfillCli ==
  \/ ParseCommandLine
  \/ ValidateArgs
  \/ FindDataGapBoundaries
  \/ ConfirmBackfill
  \/ LoadDataFromLocalFiles
  \/ GetDataForDateRanges
  \/ InitializeIndexer
  \/ BulkIndexImperial
  \/ BulkIndexMetric
  \/ ProcessEnds

SpecBackfillCli == InitBackfillCli /\ [][NextBackfillCli]_vars

\* ------------------------------------------------ the command is entered again
\* the operator enters the same command line once more after runBackfill
\* returned: a new process starts from scratch against the same clusters and
\* the same data directories
RunBackfillAgain ==
  /\ bpc = "returned"
  /\ earlierResults = <<>>
  /\ earlierResults' = Append(earlierResults,
        [boundaries |-> boundaries, backfillBulkCalls |-> backfillBulkCalls,
         clusterResults |-> clusterResults])
  /\ bpc' = "validateArgs"
  /\ clusters' = <<>>
  /\ clusterIndex' = 0
  /\ fromDate' = null
  /\ toDate' = null
  /\ boundaries' = [c \in Clusters |-> NoBoundaries]
  /\ calls' = [c \in Clusters |-> {}]
  /\ answer' = [c \in Clusters |-> "none"]
  /\ dataSource' = "unknown"
  /\ dataRecords' = <<>>
  /\ filesForIndexing' = <<>>
  /\ backfillBulkCalls' = [c \in Clusters |-> [d \in DataTypes |-> <<>>]]
  /\ clusterResults' = [c \in Clusters |-> NoResult]
  /\ runResult' = [status |-> "none", mode |-> "", error |-> ""]
  /\ UNCHANGED <<esDocs, localFiles, faultsLeft, cliArgs, tempJsonl, exitCode,
                 stationReadings>>
  /\ UNCHANGED mainVars
  /\ UNCHANGED archiveVars

NextBackfillRerun ==
  \/ ValidateArgs
  \/ FindDataGapBoundaries
  \/ ConfirmBackfill
  \/ LoadDataFromLocalFiles
  \/ GetDataForDateRanges
  \/ InitializeIndexer
  \/ BulkIndexImperial
  \/ BulkIndexMetric
  \/ RunBackfillAgain

\* a valid command line for one cluster, entered twice in a healthy environment
InitBackfillRerun ==
  /\ InitRuns
  /\ ArchiveNotRunning
  /\ schedule = "backfill"
  /\ faultsLeft = 0
  /\ cliArgs \in { args \in OrderedCommandLines : ~args.both }
  /\ BackfillStorage(BackfillEpochs, Range(ClustersOf(cliArgs)))
  /\ BackfillIdle
  /\ bpc = "validateArgs"
  /\ clusters = <<>>
  /\ clusterIndex = 0
  /\ fromDate = null
  /\ toDate = null

SpecBackfillRerun == InitBackfillRerun /\ [][NextBackfillRerun]_vars

\* --------------------------------------------------- scripts/archive-data.js
\* how ARCHIVE_PATH may be found: not set, set to a directory that does not
\* exist (drive not mounted), or usable
ArchivePaths == {"unset", "missing", "mounted"}

\* lines 191-214: the newest dateutc of the imperial indices, null when the
\* search gives nothing
getLatestIndexedDate(c) ==
  LET result == searchDocsByDateRange(c, 0, Now, "dateutc:desc")
  IN IF result.defined /\ Len(result.hits) > 0 THEN result.hits[1] ELSE null

\* mutation: the newer of the two clusters' dates is taken as safe
SafeArchiveDate_NewerCluster(prodLatest, stagingLatest) ==
  IF prodLatest >= stagingLatest THEN prodLatest ELSE stagingLatest

\* line 146: Math.min(prodLatest, stagingLatest)
SafeArchiveDate(prodLatest, stagingLatest) == MathMin(prodLatest, stagingLatest)

\* line 285: eligibleFiles.sort, oldest toEpoch first
RECURSIVE SortedByToEpoch(_)
SortedByToEpoch(S) ==
  IF S = {} THEN <<>>
  ELSE LET m == CHOOSE x \in S : \A y \in S :
                  x.toEpoch < y.toEpoch
                  \/ (x.toEpoch = y.toEpoch /\ x.fromEpoch <= y.fromEpoch)
       IN <<m>> \o SortedByToEpoch(S \ {m})

\* lines 224-286: the file sets whose toEpoch is older than both dates
findFilesToArchive(cutoff, safeArchiveDate) ==
  LET effectiveCutoff == MathMin(cutoff, safeArchiveDate)
  IN SortedByToEpoch({ fileSet \in dataFileSets : fileSet.toEpoch < effectiveCutoff })

\* lines 100-123: ARCHIVE_PATH is checked, unless this is a dry run
CheckArchivePath ==
  /\ apc = "main"
  /\ apc' = IF ~archiveArgs.dryRun /\ archiveArgs.archivePath # "mounted"
            THEN "exit(1)" ELSE "getLatestIndexedDate"
  /\ UNCHANGED <<esDocs, localFiles, faultsLeft, archiveArgs, cutoffDate, latestIndexed,
                 dataFileSets, filesToArchive, archivedFileSets>>
  /\ UNCHANGED <<mainVars, backfillVars>>

\* lines 129-160: both clusters are asked for their latest date; without
\* both dates the script exits, otherwise the eligible file sets are listed
GetLatestIndexedDates ==
  /\ apc = "getLatestIndexedDate"
  /\ \E failed \in SUBSET Clusters :
       /\ Cardinality(failed) <= faultsLeft
       /\ faultsLeft' = faultsLeft - Cardinality(failed)
       /\ latestIndexed' = [c \in Clusters |->
             IF c \in failed THEN null ELSE getLatestIndexedDate(c)]
  /\ LET prodLatest == latestIndexed'["PRODUCTION"]
         stagingLatest == latestIndexed'["STAGING"]
     IN IF ~Truthy(prodLatest) \/ ~Truthy(stagingLatest)
        THEN /\ apc' = "exit(1)"
             /\ UNCHANGED filesToArchive
        ELSE /\ filesToArchive' =
                  findFilesToArchive(cutoffDate, SafeArchiveDate(prodLatest, stagingLatest))
             /\ apc' = IF filesToArchive' = <<>> THEN "returned" ELSE "archiving"
  /\ UNCHANGED <<esDocs, localFiles, archiveArgs, cutoffDate, dataFileSets,
                 archivedFileSets>>
  /\ UNCHANGED <<mainVars, backfillVars>>

\* lines 163-176 and 293-315: the next file set is moved, or only named in a
\* dry run; a move that fails is counted and the loop goes on
ArchiveFileSet ==
  /\ apc = "archiving"
  /\ filesToArchive # <<>>
  /\ LET fileSet == Head(filesToArchive)
     IN IF archiveArgs.dryRun
        THEN UNCHANGED <<dataFileSets, archivedFileSets, faultsLeft>>
        ELSE \/ /\ dataFileSets' = dataFileSets \ {fileSet}
                /\ archivedFileSets' = archivedFileSets \cup {fileSet}
                /\ UNCHANGED faultsLeft
             \/ /\ faultsLeft > 0
                /\ faultsLeft' = faultsLeft - 1
                /\ UNCHANGED <<dataFileSets, archivedFileSets>>
  /\ filesToArchive' = Tail(filesToArchive)
  /\ apc' = IF Tail(filesToArchive) = <<>> THEN "returned" ELSE "archiving"
  /\ UNCHANGED <<esDocs, localFiles, archiveArgs, cutoffDate, latestIndexed>>
  /\ UNCHANGED <<mainVars, backfillVars>>

\* the names fromEpoch_toEpoch a data file set may have
FileSetNames ==
  { [fromEpoch |-> f, toEpoch |-> t] : f \in Timestamps, t \in Timestamps }

\* npm run archive: any clusters, any files, any retention, with or without
\* --dry-run
InitArchive ==
  /\ pc = [r \in Runs |-> "Idle"]
  /\ initResult = [r \in Runs |-> [c \in Clusters |-> InitializePending]]
  /\ clusterLatestDate = [r \in Runs |-> [c \in Clusters |-> null]]
  /\ fetchFromDate = [r \in Runs |-> null]
  /\ imperialJSONLFileNames = [r \in Runs |-> <<>>]
  /\ metricJSONLFileNames = [r \in Runs |-> <<>>]
  /\ getNewDataPromiseResult = [r \in Runs |-> "pending"]
  /\ ipc = [r \in Runs |-> [c \in Clusters |-> "notStarted"]]
  /\ results = [r \in Runs |-> [c \in Clusters |-> "none"]]
  /\ bulkCalls = [r \in Runs |-> [c \in Clusters |-> [d \in DataTypes |-> <<>>]]]
  /\ bulkWritten = [r \in Runs |-> [c \in Clusters |-> [d \in DataTypes |-> {}]]]
  /\ returned = [r \in Runs |-> "pending"]
  /\ BackfillNotRunning
  /\ InitClusters
  /\ localFiles = [f \in FileNames |-> <<>>]
  /\ schedule = "archive"
  /\ faultsLeft = IF MaxFaults > 0 THEN 1 ELSE 0
  /\ apc = "main"
  /\ archiveArgs \in [dryRun : BOOLEAN, archivePath : ArchivePaths]
  /\ cutoffDate \in 0..(MaxTs + 1)
  /\ latestIndexed = [c \in Clusters |-> null]
  /\ dataFileSets \in { S \in SUBSET { n \in FileSetNames : n.fromEpoch <= n.toEpoch } :
                          Cardinality(S) <= MaxFiles + 1 }
  /\ filesToArchive = <<>>
  /\ archivedFileSets = {}

NextArchive ==
  \/ CheckArchivePath
  \/ GetLatestIndexedDates
  \/ ArchiveFileSet

SpecArchive == InitArchive /\ [][NextArchive]_vars

\* ------------------------------------------------------ end-of-run reports
\* main.js lines 231-240: the final results, one line per settled indexToCluster
LiveReport(r) ==
  [ i \in 1..2 |->
      LET clusterName == IF i = 1 THEN "PRODUCTION" ELSE "STAGING"
      IN [cluster |-> clusterName, status |-> results[r][clusterName]] ]

\* backfill.js lines 69-85 and bin/runBackfill.js line 76: the dual-cluster
\* report names each cluster next to its result; for one cluster the result
\* object of backfillSingleCluster is the report
BackfillReport ==
  IF Len(clusters) > 1
  THEN [ i \in 1..Len(clusters) |->
           [cluster |-> clusters[i], status |-> clusterResults[clusters[i]].status] ]
  ELSE << [cluster |-> clusterResults[clusters[1]].cluster,
           status |-> clusterResults[clusters[1]].status] >>

\* ------------------------------------------------------------------ claims
\* every dateutc that run r put into a bulk payload for cluster c
SentDocs(r, c, d) ==
  UNION { Range(bulkCalls[r][c][d][i].docs) : i \in 1..Len(bulkCalls[r][c][d]) }

\* the records of the files a run fetched
BatchDocs(r) ==
  UNION { Range(localFiles[imperialJSONLFileNames[r][i]]) :
            i \in 1..Len(imperialJSONLFileNames[r]) }

IndexingDone(r, c) == ipc[r][c] = "done"

\* C1: in a live run no reading whose dateutc is at or below the boundary the
\* run resolved for a cluster is ever part of a bulk payload sent to that
\* cluster, for imperial and metric alike; the filter is the cluster's own
\* boundary, not the fetch origin.
C1_OwnBoundaryFilter ==
  \A r \in Runs, c \in Clusters, d \in DataTypes :
    clusterLatestDate[r][c] # null =>
      \A t \in SentDocs(r, c, d) : t > clusterLatestDate[r][c]

\* C1 witness: a fetched reading lies above the fetch origin but not above
\* cluster c's own boundary; c finished indexing without it while the other
\* cluster was sent it.
C1_Witness ==
  \E r \in Runs, c \in Clusters, o \in Clusters, t \in Timestamps :
    /\ c # o
    /\ fetchFromDate[r] # null /\ clusterLatestDate[r][c] # null
    /\ t \in BatchDocs(r)
    /\ fetchFromDate[r] < t /\ t <= clusterLatestDate[r][c]
    /\ IndexingDone(r, c) /\ results[r][c] = "success"
    /\ t \notin SentDocs(r, c, "imperial") /\ t \notin SentDocs(r, c, "metric")
    /\ t \in SentDocs(r, o, "imperial") /\ t \in SentDocs(r, o, "metric")

\* a bulkIndexDocuments call of run r to cluster c rejected
Threw(r, c) ==
  \E d \in DataTypes : \E i \in 1..Len(bulkCalls[r][c][d]) :
    bulkCalls[r][c][d][i].outcome = "rejected"

\* the fetched readings strictly newer than the boundary run r resolved for c
NewerThanBoundary(r, c) ==
  { t \in BatchDocs(r) : clusterLatestDate[r][c] = null \/ t > clusterLatestDate[r][c] }

NoBulkCalls(r) == \A c \in Clusters, d \in DataTypes : bulkCalls[r][c][d] = <<>>

OriginComputed(r) == pc[r] \notin {"Idle", "ResolvingBoundaries"}

\* C2: when one cluster's bulk write throws and the other cluster's do not,
\* the finished run reports the first as error and the second as success, and
\* the second cluster was sent, once per data type, exactly the fetched
\* readings newer than its own boundary.
C2_ClusterIsolation ==
  \A r \in Runs, a \in Clusters, b \in Clusters :
    (a # b /\ pc[r] = "Done" /\ Threw(r, a) /\ ~Threw(r, b)) =>
      /\ results[r][a] = "error"
      /\ results[r][b] = "success"
      /\ \A d \in DataTypes :
           /\ SentDocs(r, b, d) = NewerThanBoundary(r, b)
           /\ Len(bulkCalls[r][b][d]) <= 1

\* C2 witness: a finished run in which one cluster threw and the other was
\* sent readings and stored them.
C2_Witness ==
  \E r \in Runs, a \in Clusters, b \in Clusters :
    /\ a # b /\ pc[r] = "Done" /\ Threw(r, a) /\ ~Threw(r, b)
    /\ results[r][a] = "error" /\ results[r][b] = "success"
    /\ bulkWritten[r][b]["imperial"] # {} /\ bulkWritten[r][b]["metric"] # {}

\* C5: in a finished run in which both clusters have a boundary and both
\* report success, each cluster was sent, for each data type, every fetched
\* reading strictly newer than its own boundary and nothing else.
C5_EachClusterGetsItsNewReadings ==
  \A r \in Runs :
    (/\ pc[r] = "Done"
     /\ \A c \in Clusters : clusterLatestDate[r][c] # null /\ results[r][c] = "success") =>
      \A c \in Clusters, d \in DataTypes :
        SentDocs(r, c, d) = { t \in BatchDocs(r) : t > clusterLatestDate[r][c] }

\* C5 witness: both boundaries equal a fetched reading; that reading is left
\* out and the newer one is sent to both clusters.
C5_Witness ==
  \E r \in Runs, b \in Timestamps :
    /\ pc[r] = "Done"
    /\ \A c \in Clusters : clusterLatestDate[r][c] = b /\ results[r][c] = "success"
    /\ b \in BatchDocs(r)
    /\ \E t \in BatchDocs(r) : t > b
    /\ \A c \in Clusters, d \in DataTypes :
         SentDocs(r, c, d) = { t \in BatchDocs(r) : t > b }

\* C7: when both clusters' boundaries are present, the date handed to the
\* fetcher is the older of the two, so it is never newer than either.
C7_OriginIsOldestBoundary ==
  \A r \in Runs :
    (/\ OriginComputed(r)
     /\ \A c \in Clusters : clusterLatestDate[r][c] # null) =>
      /\ \E c \in Clusters : fetchFromDate[r] = clusterLatestDate[r][c]
      /\ \A c \in Clusters : fetchFromDate[r] <= clusterLatestDate[r][c]

\* C7 witness: the fetch was called with two different boundaries present.
C7_Witness ==
  \E r \in Runs :
    /\ pc[r] = "Fetching"
    /\ clusterLatestDate[r]["PRODUCTION"] # null
    /\ clusterLatestDate[r]["STAGING"] # null
    /\ clusterLatestDate[r]["PRODUCTION"] > clusterLatestDate[r]["STAGING"]
    /\ fetchFromDate[r] = clusterLatestDate[r]["STAGING"]

\* C8 as stated: when exactly one cluster's boundary is absent, no
\* cluster-derived date is handed to the fetcher.
C8_OriginFallsBackWhenOneAbsent ==
  \A r \in Runs :
    (/\ OriginComputed(r)
     /\ \E c \in Clusters : clusterLatestDate[r][c] = null
     /\ \E c \in Clusters : clusterLatestDate[r][c] # null) =>
      fetchFromDate[r] = null

\* C8 amended: when exactly one cluster's boundary is absent, the date handed
\* to the fetcher is the present cluster's boundary; only when both are absent
\* is no cluster-derived date handed over.
C8_OriginIsThePresentBoundary ==
  \A r \in Runs :
    OriginComputed(r) =>
      /\ \A c \in Clusters, o \in Clusters :
           (clusterLatestDate[r][c] = null /\ clusterLatestDate[r][o] # null) =>
             fetchFromDate[r] = clusterLatestDate[r][o]
      /\ (\A c \in Clusters : clusterLatestDate[r][c] = null) => fetchFromDate[r] = null

\* C8 witness: PRODUCTION absent, STAGING present, the fetch called with
\* STAGING's boundary.
C8_Witness ==
  \E r \in Runs :
    /\ pc[r] = "Fetching"
    /\ clusterLatestDate[r]["PRODUCTION"] = null
    /\ clusterLatestDate[r]["STAGING"] # null
    /\ fetchFromDate[r] = clusterLatestDate[r]["STAGING"]

\* C9: once the fetcher answered 'too early' the run never aborts, issues no
\* bulk write to any cluster, reports no cluster as failed and, when it ends,
\* has returned 'Done'.
C9_TooEarlyEndsDone ==
  \A r \in Runs :
    getNewDataPromiseResult[r] = "too early" =>
      /\ pc[r] \in {"CommittingPerCluster", "Done"}
      /\ pc[r] = "Done" <=> returned[r] = "Done"
      /\ returned[r] \in {"pending", "Done"}
      /\ NoBulkCalls(r)
      /\ \A c \in Clusters : results[r][c] # "error"

\* C9 witness: a run that was told 'too early' has returned 'Done' while the
\* archive held readings newer than a cluster's boundary.
C9_Witness ==
  \E r \in Runs :
    /\ getNewDataPromiseResult[r] = "too early"
    /\ pc[r] = "Done" /\ returned[r] = "Done"
    /\ \E c \in Clusters, f \in FileNames, i \in 1..MaxTs + 1 :
         i <= Len(localFiles[f]) /\ localFiles[f][i] > clusterLatestDate[r][c]

\* C10: when the fetch rejects, the run is aborted with the fetch error as its
\* rejection, indexToCluster is never called and no bulk write is issued.
C10_FetchFailureAborts ==
  \A r \in Runs :
    getNewDataPromiseResult[r] = "rejected" =>
      /\ pc[r] = "Aborted"
      /\ returned[r] = "rejected: fetch error"
      /\ NoBulkCalls(r)
      /\ \A c \in Clusters : ipc[r][c] = "notStarted" /\ results[r][c] = "none"

\* C10 witness: the fetch rejected after both boundaries were resolved.
C10_Witness ==
  \E r \in Runs :
    /\ getNewDataPromiseResult[r] = "rejected"
    /\ pc[r] = "Aborted"
    /\ \A c \in Clusters : clusterLatestDate[r][c] # null

\* the settled initialize() delivered the cluster's most recent document
ResolutionAnswered(r, c) ==
  /\ initResult[r][c].status = "fulfilled"
  /\ initResult[r][c].outcome = "success"
  /\ initResult[r][c].isArray

\* every bulk call of run r to cluster c resolved without rejected documents
CommittedCleanly(r, c) ==
  /\ results[r][c] = "success"
  /\ \A d \in DataTypes : \A i \in 1..Len(bulkCalls[r][c][d]) :
       /\ bulkCalls[r][c][d][i].outcome = "resolved"
       /\ bulkCalls[r][c][d][i].erroredDocuments = {}

C4_SecondCommitIsEmpty ==
  \A c \in Clusters :
    (/\ pc["pi"] = "Done" /\ pc["mac"] = "Done"
     /\ Len(imperialJSONLFileNames["pi"]) > 0
     /\ imperialJSONLFileNames["mac"] = imperialJSONLFileNames["pi"]
     /\ CommittedCleanly("pi", c)
     /\ ResolutionAnswered("mac", c)) =>
      /\ \A d \in DataTypes : bulkCalls["mac"][c][d] = <<>>
      /\ results["mac"][c] = "success"

\* C6: a cluster whose boundary resolution failed still gets its
\* indexToCluster result, and no bulk payload sent to it holds a reading at or
\* below the newest reading the cluster stores at that moment.
C6_ResolverFailureNeitherSkipsNorDuplicates ==
  [][ \A r \in Runs, c \in Clusters :
        initResult[r][c] \in InitializeFailures =>
          /\ pc'[r] = "Done" => results'[r][c] # "none"
          /\ \A d \in DataTypes :
               Len(bulkCalls'[r][c][d]) > Len(bulkCalls[r][c][d]) =>
                 \A t \in Range(bulkCalls'[r][c][d][Len(bulkCalls'[r][c][d])].docs) :
                   t > SetMax(esDocs[c][d]) ]_vars

\* the fetch step of run r ended in an error of its own
FetchStepFailed(r) ==
  returned[r] \in {"rejected: fetch error", "rejected: convert error"}

\* C11: a run in which the boundary resolution of one or both clusters failed
\* (initialize rejected, answered 'no connection', or answered a non-success
\* outcome) is never ended by that failure: it still calls the fetcher, and
\* unless the fetch step itself fails it ends with 'Done'.
C11_ResolutionFailureNeverAborts ==
  \A r \in Runs :
    (\E c \in Clusters : initResult[r][c] \in InitializeFailures) =>
      /\ returned[r] \in {"pending", "Done"} \/ FetchStepFailed(r)
      /\ Terminated(r) => getNewDataPromiseResult[r] # "pending"
      /\ (Terminated(r) /\ ~FetchStepFailed(r)) =>
           pc[r] = "Done" /\ returned[r] = "Done"

\* C11 witness: both clusters' initialize() failed, one by rejecting, and the
\* run fetched data and returned 'Done'.
C11_Witness ==
  \E r \in Runs :
    /\ \A c \in Clusters : initResult[r][c] \in InitializeFailures
    /\ \E c \in Clusters : initResult[r][c].status = "rejected"
    /\ getNewDataPromiseResult[r] = "data"
    /\ pc[r] = "Done" /\ returned[r] = "Done"

\* run r called indexToCluster for its clusters
ReachedCommitPhase(r) == \E c \in Clusters : ipc[r][c] # "notStarted"

\* C12: a run that reached the per-cluster commit phase never aborts and ends
\* with 'Done', whatever the clusters' commit outcomes, also when both fail.
C12_CommitPhaseAlwaysEndsDone ==
  \A r \in Runs :
    ReachedCommitPhase(r) =>
      /\ pc[r] \in {"CommittingPerCluster", "Done"}
      /\ returned[r] \in {"pending", "Done"}
      /\ Terminated(r) => returned[r] = "Done"

\* C12 witness: both clusters' commits failed and the run returned 'Done'.
C12_Witness ==
  \E r \in Runs :
    /\ \A c \in Clusters : results[r][c] = "error" /\ Threw(r, c)
    /\ pc[r] = "Done" /\ returned[r] = "Done"

\* C13: after the first run's commit to a cluster succeeded, the boundary the
\* next run resolves for that cluster (its initialize() was answered) is at
\* or above every dateutc the first run wrote there, for imperial and metric.
C13_BoundaryCoversCommitted ==
  \A c \in Clusters, d \in DataTypes :
    (/\ pc["pi"] = "Done" /\ results["pi"][c] = "success"
     /\ OriginComputed("mac") /\ ResolutionAnswered("mac", c)) =>
      \A t \in bulkWritten["pi"][c][d] :
        clusterLatestDate["mac"][c] # null /\ clusterLatestDate["mac"][c] >= t

\* the gap locator answered for cluster c
Located(c) == boundaries[c].startEpoch # null

C15_CommittedStrictlyInsideGap ==
  \A c \in Clusters, d \in DataTypes :
    \A i \in 1..Len(backfillBulkCalls[c][d]) :
      \A t \in Range(backfillBulkCalls[c][d][i].docs) :
        /\ Located(c)
        /\ boundaries[c].startEpoch < t
        /\ t < boundaries[c].endEpoch

\* the archived readings strictly between the two boundaries of cluster c
ArchivedInGap(c) ==
  { t \in UNION { Range(localFiles[f]) : f \in FileNames } :
      boundaries[c].startEpoch < t /\ t < boundaries[c].endEpoch }

\* C16: after a successful backfill pass sourced from the archive, in which the
\* cluster rejected no document, the number of readings committed per category
\* equals the number of archived readings strictly between the boundaries.
C16_LocalCommitCountIsGapCount ==
  \A c \in Clusters :
    (/\ clusterResults[c].status = "success"
     /\ clusterResults[c].dataSource = "local"
     /\ \A d \in DataTypes : \A i \in 1..Len(backfillBulkCalls[c][d]) :
          backfillBulkCalls[c][d][i].erroredDocuments = {}) =>
      \A d \in DataTypes :
        /\ Len(backfillBulkCalls[c][d]) = 1
        /\ Len(backfillBulkCalls[c][d][1].docs) = Cardinality(ArchivedInGap(c))

\* C17: when the gap locator reports no gap for a cluster, that cluster's flow
\* has ended with the 'already complete' success result, and nothing was
\* prompted, loaded, fetched or written for it.
C17_NoGapEndsWithoutWork ==
  \A c \in Clusters :
    (Located(c) /\ ~boundaries[c].gapFound) =>
      /\ clusterResults[c].status = "success"
      /\ clusterResults[c].message = "No gap found - data already complete"
      /\ calls[c] \subseteq {"createEsClient", "searchDocsByDateRange"}
      /\ answer[c] = "none"
      /\ \A d \in DataTypes : backfillBulkCalls[c][d] = <<>>
      /\ bpc = "returned"

\* C17 witness: two documents less than ten minutes apart around the window,
\* the locator reported no gap and the flow returned.
C17_Witness ==
  \E c \in Clusters :
    /\ Located(c) /\ ~boundaries[c].gapFound
    /\ boundaries[c].endEpoch > boundaries[c].startEpoch
    /\ bpc = "returned"

\* work done for cluster c after the confirmation step
SourcedOrWritten(c) ==
  \/ calls[c] \cap {"loadDataFromLocalFiles", "getDataForDateRanges",
                    "initialize", "bulkIndexDocuments"} # {}
  \/ \E d \in DataTypes : backfillBulkCalls[c][d] # <<>>

\* C18: a write to a cluster needs a located gap and either an answer of y or
\* yes or the unattended flag; a declined prompt gives status cancelled with
\* nothing sourced or written; with the unattended flag nobody is prompted.
C18_NoWriteWithoutConfirmation ==
  \A c \in Clusters :
    /\ SourcedOrWritten(c) =>
         /\ Located(c) /\ boundaries[c].gapFound
         /\ cliArgs.yes \/ ToLowerCase(answer[c]) \in {"y", "yes"}
    /\ (answer[c] # "none" /\ ToLowerCase(answer[c]) \notin {"y", "yes"}) =>
         /\ clusterResults[c].status = "cancelled"
         /\ ~SourcedOrWritten(c)
    /\ clusterResults[c].status = "cancelled" =>
         (answer[c] # "none" /\ ~SourcedOrWritten(c))
    /\ cliArgs.yes => ("readlineSync.question" \notin calls[c] /\ answer[c] = "none")

\* C18 witness: in one run a cluster was written after an upper-case yes and
\* the other cluster was declined and cancelled.
C18_Witness ==
  \E c \in Clusters, o \in Clusters :
    /\ c # o
    /\ answer[c] = "YES"
    /\ \A d \in DataTypes : backfillBulkCalls[c][d] # <<>>
    /\ answer[o] = "n"
    /\ clusterResults[o].status = "cancelled"

\* C18 witness of the unattended flag: written without a prompt
C18_WitnessUnattended ==
  \E c \in Clusters :
    /\ cliArgs.yes
    /\ clusterResults[c].status = "success"
    /\ \A d \in DataTypes : backfillBulkCalls[c][d] # <<>>

\* the run was asked for both clusters
DualCluster == Len(clusters) = 2

\* C19: in a run for both clusters, while the first cluster's flow runs the
\* second cluster's documents, located gap and result (and the archive) are
\* left alone, and whatever the first flow's outcome, the second flow has run
\* and reported its own result when runBackfill returns.
C19_SecondClusterUnaffected ==
  /\ [](( DualCluster /\ bpc = "returned") =>
          \A c \in Clusters :
            /\ clusterResults[c].status # "none"
            /\ "createEsClient" \in calls[c])
  /\ [][(DualCluster /\ clusterIndex = 1) =>
          /\ esDocs'[clusters[2]] = esDocs[clusters[2]]
          /\ boundaries'[clusters[2]] = boundaries[clusters[2]]
          /\ clusterResults'[clusters[2]] = clusterResults[clusters[2]]
          /\ calls'[clusters[2]] = calls[clusters[2]]
          /\ localFiles' = localFiles]_vars

\* C19 witness: the first cluster's flow ended in an error and the second
\* cluster was filled successfully afterwards.
C19_Witness ==
  /\ DualCluster
  /\ bpc = "returned"
  /\ clusterResults[clusters[1]].status = "error"
  /\ clusterResults[clusters[2]].status = "success"
  /\ \A d \in DataTypes : backfillBulkCalls[clusters[2]][d] # <<>>

\* the day a calendar date of the command line names, 0 for anything else
DayNamed(arg) == IF arg \in CalendarDates THEN arg.fields[3] ELSE 0

\* no cluster flag, a missing or malformed date, or a start not before the end
InvalidArguments(args) ==
  \/ ~(args.prod \/ args.staging \/ args.both)
  \/ args.from \notin CalendarDates
  \/ args.to \notin CalendarDates
  \/ DayNamed(args.from) >= DayNamed(args.to)

\* C20: an invocation with invalid arguments returns an error result and no
\* client was created, no gap query, prompt, fetch or write happened.
C20_InvalidArgumentsRejectedFirst ==
  (InvalidArguments(cliArgs) /\ bpc # "validateArgs") =>
    /\ bpc = "returned"
    /\ runResult.status = "error"
    /\ runResult.error # ""
    /\ \A c \in Clusters :
         /\ calls[c] = {}
         /\ boundaries[c] = NoBoundaries
         /\ clusterResults[c] = NoResult
         /\ \A d \in DataTypes : backfillBulkCalls[c][d] = <<>>

\* C20 witness: a cluster and two well-formed dates in the wrong order were
\* given and the run returned the error.
C20_Witness ==
  /\ cliArgs.both
  /\ cliArgs.from \in CalendarDates /\ cliArgs.to \in CalendarDates
  /\ DayNamed(cliArgs.from) > DayNamed(cliArgs.to)
  /\ bpc = "returned"
  /\ runResult.error = "Start date must be before end date"

\* validateArgs would reject the command line, or yargs does
ValidationFails(args) == InvalidArguments(args) \/ ~YargsAccepts(args)

\* C21: a backfill invocation whose validation fails ends the process with a
\* non-zero exit status.
C21_ValidationFailureExitsNonZero ==
  (bpc = "exited" /\ ValidationFails(cliArgs)) => (exitCode # null /\ exitCode # 0)

\* C22: a backfill for both clusters in which a cluster ended with status
\* error still visits every cluster, returns the dual-cluster report with
\* overall status success, and the process ends with exit status 0.
C22_ClusterErrorsDoNotFailTheRun ==
  (/\ DualCluster
   /\ bpc \in {"returned", "exited"}
   /\ \E c \in Clusters : clusterResults[c].status = "error") =>
    /\ \A c \in Clusters : clusterResults[c].status # "none"
    /\ runResult.status = "success"
    /\ runResult.mode = "dual-cluster"
    /\ bpc = "exited" => exitCode = 0

\* C22 witness: both clusters ended with status error and the process ended
\* with exit status 0.
C22_Witness ==
  /\ DualCluster
  /\ bpc = "exited"
  /\ \A c \in Clusters : clusterResults[c].status = "error"
  /\ runResult.mode = "dual-cluster"
  /\ exitCode = 0

\* the statuses a report entry may carry
ReportStatuses == {"success", "skipped", "cancelled", "error"}

\* exactly one entry per target cluster, naming it, with an explicit status
OneEntryPerTarget(report, targets) ==
  /\ Len(report) = Cardinality(targets)
  /\ \A c \in targets :
       Cardinality({ i \in 1..Len(report) : report[i].cluster = c }) = 1
  /\ \A i \in 1..Len(report) : report[i].status \in ReportStatuses

\* C23: the end-of-run report of every completed run (live, single- or
\* multi-cluster backfill) has exactly one entry per target cluster, each
\* naming its cluster and carrying a status of success, skipped, cancelled or
\* error.
C23_ReportNamesEveryTarget ==
  /\ \A r \in Runs : pc[r] = "Done" => OneEntryPerTarget(LiveReport(r), Clusters)
  /\ (bpc \in {"returned", "exited"} /\ clusters # <<>>) =>
       OneEntryPerTarget(BackfillReport, Range(clusters))

\* how many accepted documents with timestamp t a sequence of bulk calls stored
StoredCopies(bulk, t) ==
  Cardinality({ p \in UNION { {i} \X (1..Len(bulk[i].docs)) : i \in 1..Len(bulk) } :
                  /\ bulk[p[1]].outcome = "resolved"
                  /\ bulk[p[1]].docs[p[2]] = t
                  /\ t \notin bulk[p[1]].erroredDocuments })

\* C24: after a live run or a backfill pass, every metric reading the run
\* wrote to a cluster has exactly one imperial reading with the same dateutc
\* written by the run to the same cluster.
C24_MetricHasExactlyOneImperial ==
  /\ \A r \in Runs, c \in Clusters :
       pc[r] = "Done" =>
         \A t \in bulkWritten[r][c]["metric"] :
           StoredCopies(bulkCalls[r][c]["imperial"], t) = 1
  /\ \A c \in Clusters :
       clusterResults[c].status # "none" =>
         \A t \in stationReadings :
           StoredCopies(backfillBulkCalls[c]["metric"], t) > 0 =>
             StoredCopies(backfillBulkCalls[c]["imperial"], t) = 1

\* C25: no step of a backfill changes or removes an archive file, and a
\* temporary file is only removed by the pass that created it (the pass that
\* sourced its data from the API and handed that file to the indexer).
C25_ArchiveFilesPreserved ==
  [][/\ localFiles' = localFiles
     /\ (tempJsonl # <<>> /\ tempJsonl' = <<>>) =>
          (dataSource = "api" /\ filesForIndexing = <<TempFileBaseName>>)]_vars

\* C25 witness: with a non-empty archive that holds nothing of the gap, a
\* cluster was filled from the API and the temporary file is gone again.
C25_Witness ==
  /\ \E f \in FileNames : localFiles[f] # <<>>
  /\ \E c \in Clusters :
       /\ clusterResults[c].status = "success"
       /\ clusterResults[c].dataSource = "api"
       /\ \A d \in DataTypes : backfillBulkCalls[c][d] # <<>>
  /\ tempJsonl = <<>>

\* run r left the boundary-resolution phase
PastResolution(r) == pc[r] \in {"Fetching", "CommittingPerCluster", "Done", "Aborted"}

\* a bulk call of run r to cluster c was rejected
BulkRejected(r, c) ==
  \E d \in DataTypes : \E i \in 1..Len(bulkCalls[r][c][d]) :
    bulkCalls[r][c][d][i].outcome = "rejected"

\* C26: a live run leaves the boundary resolution only when both initialize()
\* calls have settled and uses each cluster's own outcome; it returns only
\* when both indexToCluster calls have settled, and each cluster's reported
\* status is its own outcome, whatever happened in the other cluster.
C26_FanOutsWaitForEveryCluster ==
  \A r \in Runs :
    /\ PastResolution(r) =>
         \A c \in Clusters :
           /\ initResult[r][c] # InitializePending
           /\ clusterLatestDate[r][c] = LatestDateFrom(initResult[r][c])
    /\ pc[r] = "Done" =>
         \A c \in Clusters :
           /\ ipc[r][c] = "done"
           /\ results[r][c] \in {"success", "error"}
           /\ results[r][c] = "error" <=> BulkRejected(r, c)

\* C26 witness: one cluster's initialize() rejected and its commit succeeded,
\* the other cluster resolved a boundary and its commit was rejected; the run
\* returned with both outcomes.
C26_Witness ==
  \E r \in Runs, c \in Clusters, o \in Clusters :
    /\ pc[r] = "Done"
    /\ initResult[r][c].status = "rejected"
    /\ results[r][c] = "success"
    /\ clusterLatestDate[r][o] # null
    /\ results[r][o] = "error"

\* the steps main() may take from one phase to the next; converting is part
\* of the fetch step and reporting part of the step that ends the run
PhaseSteps ==
  { <<"Idle", "ResolvingBoundaries">>, <<"ResolvingBoundaries", "Fetching">>,
    <<"Fetching", "CommittingPerCluster">>, <<"Fetching", "Aborted">>,
    <<"CommittingPerCluster", "Done">> }

\* C27: a live run goes through resolving, fetching (with conversion),
\* committing and reporting in this order; the fetch is invoked once, when
\* both boundary resolutions have settled, and no bulk write is issued before
\* the fetch and the conversion are over.
C27_PhaseOrder ==
  /\ [][\A r \in Runs :
          /\ pc'[r] # pc[r] => <<pc[r], pc'[r]>> \in PhaseSteps
          /\ (pc'[r] = "Fetching" /\ pc[r] # "Fetching") =>
               \A c \in Clusters : initResult[r][c] # InitializePending]_vars
  /\ [](\A r \in Runs :
          /\ (getNewDataPromiseResult[r] # "pending" \/ pc[r] = "Fetching") =>
               \A c \in Clusters : initResult[r][c] # InitializePending
          /\ pc[r] = "Done" => getNewDataPromiseResult[r] # "pending"
          /\ \A c \in Clusters, d \in DataTypes :
               bulkCalls[r][c][d] # <<>> =>
                 /\ pc[r] \in {"CommittingPerCluster", "Done"}
                 /\ getNewDataPromiseResult[r] = "data")

\* C27 witness: a run went through every phase, wrote to both clusters and
\* returned.
C27_Witness ==
  \E r \in Runs :
    /\ pc[r] = "Done"
    /\ getNewDataPromiseResult[r] = "data"
    /\ \A c \in Clusters, d \in DataTypes : bulkCalls[r][c][d] # <<>>

\* the run r ended with main() rejecting
MainRejected(r) == pc[r] = "Aborted"

\* C28 as stated: a live run ends Aborted only on a hard failure of the fetch.
C28_AbortedOnlyOnFetchFailure ==
  \A r \in Runs : MainRejected(r) => getNewDataPromiseResult[r] = "rejected"

\* C28 (amended): a live run ends Aborted only from the fetch-and-convert
\* step, when the fetch fails hard or when the fetch succeeded and the
\* conversion throws; nothing was written by such a run, and a run that left
\* that step never ends Aborted and returns 'Done'.
C28_AbortedOnlyFromFetchOrConvert ==
  /\ [][\A r \in Runs :
          (MainRejected(r)' /\ ~MainRejected(r)) =>
            /\ pc[r] = "Fetching"
            /\ \/ /\ getNewDataPromiseResult'[r] = "rejected"
                  /\ returned'[r] = "rejected: fetch error"
               \/ /\ getNewDataPromiseResult'[r] = "data"
                  /\ returned'[r] = "rejected: convert error"]_vars
  /\ [](\A r \in Runs :
          /\ MainRejected(r) =>
               /\ getNewDataPromiseResult[r] \in {"rejected", "data"}
               /\ \A c \in Clusters, d \in DataTypes : bulkCalls[r][c][d] = <<>>
          /\ getNewDataPromiseResult[r] \in {"too early", "other"} => ~MainRejected(r)
          /\ pc[r] = "Done" => returned[r] = "Done")

\* C28 witness: the fetch returned data, the conversion threw and main
\* rejected.
C28_Witness ==
  \E r \in Runs :
    /\ MainRejected(r)
    /\ getNewDataPromiseResult[r] = "data"
    /\ returned[r] = "rejected: convert error"

\* the fetched files of run r hold a reading newer than the boundary the run
\* resolved for cluster c
HasNewerReadings(r, c) ==
  /\ Len(imperialJSONLFileNames[r]) > 0
  /\ Len(prepareDataForBulkIndexing(imperialJSONLFileNames[r], "imperial",
                                    FilterAfterDate(r, c))) > 0

\* indexToCluster of run r for cluster c is over
IndexToClusterOver(r, c) == ipc[r][c] = "done"

\* C29 as stated: with readings newer than the cluster's boundary, the bulk
\* write is invoked exactly once for imperial and exactly once for metric.
C29_BothCategoriesCommittedOnce ==
  \A r \in Runs, c \in Clusters :
    (IndexToClusterOver(r, c) /\ HasNewerReadings(r, c)) =>
      \A d \in DataTypes : Len(bulkCalls[r][c][d]) = 1

\* C29 (amended): with readings newer than the cluster's boundary, the bulk
\* write is invoked exactly once for imperial, and exactly once for metric
\* unless the imperial call threw, in which case the metric call is skipped;
\* no category is ever committed twice to a cluster by one run.
C29_MetricSkippedWhenImperialThrows ==
  \A r \in Runs, c \in Clusters :
    /\ \A d \in DataTypes : Len(bulkCalls[r][c][d]) <= 1
    /\ (IndexToClusterOver(r, c) /\ HasNewerReadings(r, c)) =>
         /\ Len(bulkCalls[r][c]["imperial"]) = 1
         /\ Len(bulkCalls[r][c]["metric"]) =
              IF bulkCalls[r][c]["imperial"][1].outcome = "rejected" THEN 0 ELSE 1

\* C29 witness: the imperial bulk call of a cluster threw and the metric call
\* was never made, while the other cluster got both calls.
C29_Witness ==
  \E r \in Runs, c, o \in Clusters :
    /\ IndexToClusterOver(r, c) /\ IndexToClusterOver(r, o)
    /\ HasNewerReadings(r, c)
    /\ Len(bulkCalls[r][c]["imperial"]) = 1
    /\ bulkCalls[r][c]["imperial"][1].outcome = "rejected"
    /\ bulkCalls[r][c]["metric"] = <<>>
    /\ \A d \in DataTypes : Len(bulkCalls[r][o][d]) = 1

\* C30: when the payload filtered for a cluster is empty, or no file was
\* fetched, indexToCluster makes no bulk call, writes nothing and reports
\* success for that cluster.
C30_EmptyCommitIsSuccessfulNoOp ==
  \A r \in Runs, c \in Clusters :
    (IndexToClusterOver(r, c) /\ ~HasNewerReadings(r, c)) =>
      /\ results[r][c] = "success"
      /\ \A d \in DataTypes :
           /\ bulkCalls[r][c][d] = <<>>
           /\ bulkWritten[r][c][d] = {}

\* C30 witness: files were fetched, every reading in them is at or below the
\* boundary of a cluster, and that cluster ended with success and no bulk
\* call while the other cluster was written to.
C30_Witness ==
  \E r \in Runs, c, o \in Clusters :
    /\ IndexToClusterOver(r, c)
    /\ Len(imperialJSONLFileNames[r]) > 0
    /\ ~HasNewerReadings(r, c)
    /\ results[r][c] = "success"
    /\ \A d \in DataTypes : bulkCalls[r][c][d] = <<>>
    /\ bulkWritten[r][o]["imperial"] # {}

\* every bulk call in the sequence resolved
AllResolved(bulk) == \A i \in 1..Len(bulk) : bulk[i].outcome = "resolved"

\* what a resolved bulk call left in the cluster: the rejected documents are
\* among the submitted ones and every other submitted document is stored
PartialWrite(call, stored) ==
  call.outcome = "resolved" =>
    /\ call.erroredDocuments \subseteq Range(call.docs)
    /\ (Range(call.docs) \ call.erroredDocuments) \subseteq stored

\* C31: when the cluster rejects single documents of a bulk write, the call
\* resolves with them in erroredDocuments, the other documents are written,
\* and the commit of the cluster is not reported as failed (backfill pass and
\* live run).
C31_RejectedDocumentsDoNotFailCommit ==
  /\ \A c \in Clusters :
       /\ \A d \in DataTypes : \A i \in 1..Len(backfillBulkCalls[c][d]) :
            PartialWrite(backfillBulkCalls[c][d][i], esDocs[c][d])
       /\ (/\ clusterResults[c].status # "none"
           /\ backfillBulkCalls[c]["metric"] # <<>>
           /\ \A d \in DataTypes : AllResolved(backfillBulkCalls[c][d])) =>
            clusterResults[c].status = "success"
  /\ \A r \in Runs, c \in Clusters :
       /\ \A d \in DataTypes : \A i \in 1..Len(bulkCalls[r][c][d]) :
            PartialWrite(bulkCalls[r][c][d][i], esDocs[c][d])
       /\ (IndexToClusterOver(r, c) /\ \A d \in DataTypes : AllResolved(bulkCalls[r][c][d])) =>
            results[r][c] = "success"

\* C31 witness: a backfill pass ended with success although one document of
\* a bulk call was rejected, and another document of that call was written
\* by it.
C31_Witness ==
  \E c \in Clusters, d \in DataTypes :
    /\ clusterResults[c].status = "success"
    /\ \E i \in 1..Len(backfillBulkCalls[c][d]) :
         LET call == backfillBulkCalls[c][d][i]
         IN /\ call.outcome = "resolved"
            /\ call.erroredDocuments # {}
            /\ Range(call.docs) \ call.erroredDocuments # {}
            /\ call.erroredDocuments \cap esDocs[c][d] = {}

\* backfillSingleCluster has returned for cluster c
FlowReturned(c) == clusterResults[c].status # "none"

\* backfillSingleCluster has been entered for cluster c
FlowStarted(c) == calls[c] # {}

\* C32: with --both the clusters are processed one after the other,
\* PRODUCTION first: nothing of STAGING's flow (client, gap query, prompt,
\* write) happens before PRODUCTION's flow has returned, and nothing of
\* PRODUCTION's flow happens afterwards, so the prompts never overlap.
C32_ClustersProcessedInOrder ==
  /\ [](Len(clusters) > 1 =>
          /\ clusters = <<"PRODUCTION", "STAGING">>
          /\ FlowStarted("STAGING") => FlowReturned("PRODUCTION")
          /\ (FlowStarted("STAGING") /\ ~FlowReturned("STAGING")) =>
               ClusterInFlow = "STAGING"
          /\ ~FlowStarted("STAGING") =>
               /\ answer["STAGING"] = "none"
               /\ \A d \in DataTypes : backfillBulkCalls["STAGING"][d] = <<>>)
  /\ [][(Len(clusters) > 1 /\ FlowReturned("PRODUCTION")) =>
          /\ calls'["PRODUCTION"] = calls["PRODUCTION"]
          /\ answer'["PRODUCTION"] = answer["PRODUCTION"]
          /\ backfillBulkCalls'["PRODUCTION"] = backfillBulkCalls["PRODUCTION"]
          /\ clusterResults'["PRODUCTION"] = clusterResults["PRODUCTION"]]_vars

\* C32 witness: with --both the operator was prompted for PRODUCTION and then
\* for STAGING, and both flows wrote to their cluster.
C32_Witness ==
  /\ Len(clusters) > 1
  /\ \A c \in Clusters :
       /\ FlowReturned(c)
       /\ "readlineSync.question" \in calls[c]
       /\ backfillBulkCalls[c]["metric"] # <<>>

\* C33: a backfill pass asks the upstream API only when the local archive
\* holds no reading strictly inside the gap, and every such call bypasses the
\* cooldown.
C33_ApiOnlyWithoutLocalData ==
  \A c \in Clusters :
    "getDataForDateRanges" \in calls[c] =>
      /\ "loadDataFromLocalFiles" \in calls[c]
      /\ ArchivedInGap(c) = {}
      /\ "bypassRateLimit" \in calls[c]

\* C33 witness: the archive holds readings, none of them inside the gap, and
\* the pass fetched from the API and wrote what it got.
C33_Witness ==
  \E c \in Clusters :
    /\ "getDataForDateRanges" \in calls[c]
    /\ \E f \in FileNames : localFiles[f] # <<>>
    /\ clusterResults[c].status = "success"
    /\ clusterResults[c].dataSource = "api"

\* the imperial documents of cluster c at or before the requested start
StoredAtOrBefore(c, epoch) == { d \in esDocs[c]["imperial"] : d <= epoch }

\* the imperial documents of cluster c at or after the requested end
StoredAtOrAfter(c, epoch) == { d \in esDocs[c]["imperial"] : d >= epoch }

C35_QueryFailureEndsWithError ==
  [][(bpc = "findDataGapBoundaries" /\ faultsLeft' < faultsLeft) =>
       LET c == ClusterInFlow
       IN /\ clusterResults'[c].status = "error"
          /\ clusterResults'[c].message # ""
          /\ \A d \in DataTypes : backfillBulkCalls'[c][d] = <<>>
          /\ esDocs'[c] = esDocs[c]]_vars

\* reading t was handed to cluster c for category d by run r and not stored:
\* the bulk call threw, or the cluster rejected the document
CommitFailed(r, c, d, t) ==
  \E i \in 1..Len(bulkCalls[r][c][d]) :
    LET call == bulkCalls[r][c][d][i]
    IN /\ t \in Range(call.docs)
       /\ call.outcome = "rejected" \/ t \in call.erroredDocuments

\* cluster c answered everything run r asked of it
HealthyIn(r, c) ==
  /\ ResolutionAnswered(r, c)
  /\ results[r][c] = "success"
  /\ \A d \in DataTypes : \A i \in 1..Len(bulkCalls[r][c][d]) :
       /\ bulkCalls[r][c][d][i].outcome = "resolved"
       /\ bulkCalls[r][c][d][i].erroredDocuments = {}

\* the readings in the files run r fetched
FetchedReadings(r) ==
  UNION { Range(localFiles[f]) : f \in Range(imperialJSONLFileNames[r]) }

\* C36: a reading whose commit to a cluster failed in the first run, for
\* either category, is stored in that cluster for that category once a later
\* run that fetched it and found the cluster healthy has returned.
C36_FailedCommitIsMadeUpLater ==
  \A c \in Clusters, d \in DataTypes, t \in Timestamps :
    (/\ pc["pi"] = "Done" /\ pc["mac"] = "Done"
     /\ CommitFailed("pi", c, d, t)
     /\ HealthyIn("mac", c)
     /\ t \in FetchedReadings("mac")) =>
      t \in esDocs[c][d]

\* the command was entered before and its flow for cluster c ended with
\* success after writing readings
BackfilledBefore(c) ==
  /\ earlierResults # <<>>
  /\ earlierResults[1].clusterResults[c].status = "success"
  /\ earlierResults[1].clusterResults[c].imperialDocs > 0

PassHoldsTemporaryFiles ==
  bpc \in {"initialize", "bulkImperial", "bulkMetric"} /\ dataSource = "api"

\* a pass ended with an error after its temporary files were written
FailedAfterPreparing(c) ==
  /\ clusterResults[c].status = "error"
  /\ clusterResults[c].message \in
       {"Indexer initialization failed", "initialize rejected", "bulk rejected"}

FileSetMoved == dataFileSets' # dataFileSets \/ archivedFileSets' # archivedFileSets

\* C39: the archive script moves a file set only if the latest indexed date of
\* both clusters was determined and the file set's toEpoch is strictly older
\* than both of these dates and than the retention cutoff; with a latest date
\* unknown, or in a dry run, no file set is moved.
C39_ArchivesOnlyWhatBothClustersHold ==
  /\ [](\A fileSet \in archivedFileSets :
          /\ ~archiveArgs.dryRun
          /\ \A c \in Clusters :
               /\ latestIndexed[c] # null
               /\ fileSet.toEpoch < latestIndexed[c]
               /\ \E d \in esDocs[c]["imperial"] : fileSet.toEpoch < d
          /\ fileSet.toEpoch < cutoffDate)
  /\ []((archiveArgs.dryRun \/ \E c \in Clusters : latestIndexed[c] = null)
          => archivedFileSets = {})
  /\ [][FileSetMoved =>
          /\ ~archiveArgs.dryRun
          /\ \A c \in Clusters : latestIndexed[c] # null
          /\ dataFileSets \ dataFileSets' = archivedFileSets' \ archivedFileSets
          /\ dataFileSets' \subseteq dataFileSets]_vars

\* one file set was moved and a second, past the retention cutoff too, stays
\* because the cluster that lags behind does not hold newer data yet
C39_Witness ==
  /\ apc = "returned"
  /\ archivedFileSets # {}
  /\ latestIndexed["PRODUCTION"] # latestIndexed["STAGING"]
  /\ \E fileSet \in dataFileSets :
       /\ fileSet.toEpoch < cutoffDate
       /\ \E c \in Clusters : fileSet.toEpoch >= latestIndexed[c]
       /\ \E c \in Clusters : fileSet.toEpoch < latestIndexed[c]

====
